---- MODULE Spec2Model ----
(***************************************************************************)
(* Model of the error-as-values benchmark: the three error-propagation     *)
(* strategies (raise/catch, paired return, tagged union) at the two stack  *)
(* depths, and the runners that tally a batch of test cases.               *)
(*                                                                         *)
(* Python text is modelled by TLA+ strings; the str methods the stages use *)
(* are character-level operators.  Every other Python value is a record    *)
(* with a cls field naming its type.                                       *)
(***************************************************************************)
EXTENDS Integers, Sequences, FiniteSets, TLC

(***************************************************************************)
(* Python values                                                           *)
(***************************************************************************)
PyNone == [cls |-> "NoneType"]
PyStr(s) == [cls |-> "str", v |-> s]
PyInt(n) == [cls |-> "int", v |-> n]
PyBool(b) == [cls |-> "bool", v |-> b]
\* a float is carried by its shortest decimal representation, which is what
\* str() yields for it
PyFloat(text) == [cls |-> "float", v |-> text]
PyList(elems) == [cls |-> "list", v |-> elems]
\* a dict keeps insertion order: a sequence of <<key, value>> pairs
PyDict(items) == [cls |-> "dict", v |-> items]

PyDatetime(Y, m, d, H, M, S) ==
    [cls |-> "datetime", year |-> Y, month |-> m, day |-> d,
     hour |-> H, minute |-> M, second |-> S]

PyTypeError(text) == [cls |-> "TypeError", args |-> text]
PyValueError(text) == [cls |-> "ValueError", args |-> text]
PyKeyError(text) == [cls |-> "KeyError", args |-> text]

ExceptionClasses == {"TypeError", "ValueError", "KeyError"}

\* isinstance(x, Exception), isinstance(x, dict), isinstance(x, str)
IsException(x) == x.cls \in ExceptionClasses
IsDict(x) == x.cls = "dict"
IsStr(x) == x.cls = "str"

\* a call of a function that may raise either returns a value or raises
Return(x) == [raised |-> FALSE, value |-> x]
Raise(e) == [raised |-> TRUE, exc |-> e]

(***************************************************************************)
(* Characters                                                              *)
(***************************************************************************)
Char(s, i) == SubSeq(s, i, i)

Digits == "0123456789"
LowerCase == "abcdefghijklmnopqrstuvwxyz"
UpperCase == "ABCDEFGHIJKLMNOPQRSTUVWXYZ"

CharSet(s) == {Char(s, i) : i \in 1..Len(s)}
IndexIn(s, c) == CHOOSE i \in 1..Len(s) : Char(s, i) = c

DigitChars == CharSet(Digits)
SpaceChars == {" ", "\t", "\n", "\r"}
LowerChars == CharSet(LowerCase)
UpperChars == CharSet(UpperCase)

LowerOf == [c \in UpperChars |-> Char(LowerCase, IndexIn(UpperCase, c))]
UpperOf == [c \in LowerChars |-> Char(UpperCase, IndexIn(LowerCase, c))]
DigitValOf == [c \in DigitChars |-> IndexIn(Digits, c) - 1]

IsDigit(c) == c \in DigitChars
IsSpace(c) == c \in SpaceChars
IsLower(c) == c \in LowerChars
IsUpper(c) == c \in UpperChars
IsCased(c) == IsLower(c) \/ IsUpper(c)

ToLower(c) == IF IsUpper(c) THEN LowerOf[c] ELSE c
ToUpper(c) == IF IsLower(c) THEN UpperOf[c] ELSE c

DigitVal(c) == DigitValOf[c]

(***************************************************************************)
(* str methods                                                             *)
(***************************************************************************)
StartsWith(s, p) == Len(p) <= Len(s) /\ SubSeq(s, 1, Len(p)) = p

RECURSIVE str_lstrip(_, _)
str_lstrip(s, chars) ==
    IF s # "" /\ Char(s, 1) \in chars
    THEN str_lstrip(SubSeq(s, 2, Len(s)), chars)
    ELSE s

RECURSIVE str_rstrip(_, _)
str_rstrip(s, chars) ==
    IF s # "" /\ Char(s, Len(s)) \in chars
    THEN str_rstrip(SubSeq(s, 1, Len(s) - 1), chars)
    ELSE s

\* s.strip(chars)
str_strip_chars(s, chars) == str_rstrip(str_lstrip(s, chars), chars)

\* s.strip()
str_strip(s) == str_strip_chars(s, SpaceChars)

\* s.replace(old, new), old non-empty: leftmost non-overlapping occurrences
RECURSIVE str_replace(_, _, _)
str_replace(s, old, new) ==
    IF s = "" THEN ""
    ELSE IF StartsWith(s, old)
         THEN new \o str_replace(SubSeq(s, Len(old) + 1, Len(s)), old, new)
         ELSE Char(s, 1) \o str_replace(SubSeq(s, 2, Len(s)), old, new)

\* length of the leading run of non-whitespace characters
RECURSIVE WordLen(_)
WordLen(s) ==
    IF s = "" \/ IsSpace(Char(s, 1)) THEN 0
    ELSE 1 + WordLen(SubSeq(s, 2, Len(s)))

\* s.split(): the maximal runs of non-whitespace characters, in order
RECURSIVE str_split(_)
str_split(s) ==
    LET t == str_lstrip(s, SpaceChars)
        n == WordLen(t)
    IN IF t = "" THEN <<>>
       ELSE <<SubSeq(t, 1, n)>> \o str_split(SubSeq(t, n + 1, Len(t)))

\* sep.join(parts)
RECURSIVE str_join(_, _)
str_join(sep, parts) ==
    IF parts = <<>> THEN ""
    ELSE IF Len(parts) = 1 THEN parts[1]
    ELSE parts[1] \o sep \o str_join(sep, Tail(parts))

RECURSIVE str_lower(_)
str_lower(s) ==
    IF s = "" THEN ""
    ELSE ToLower(Char(s, 1)) \o str_lower(SubSeq(s, 2, Len(s)))

RECURSIVE str_upper(_)
str_upper(s) ==
    IF s = "" THEN ""
    ELSE ToUpper(Char(s, 1)) \o str_upper(SubSeq(s, 2, Len(s)))

\* s.title(): a cased character is upper-cased when it follows an uncased
\* one (or starts the text) and lower-cased otherwise
RECURSIVE TitleFrom(_, _)
TitleFrom(s, prevCased) ==
    IF s = "" THEN ""
    ELSE LET c == Char(s, 1)
         IN (IF prevCased THEN ToLower(c) ELSE ToUpper(c))
            \o TitleFrom(SubSeq(s, 2, Len(s)), IsCased(c))

str_title(s) == TitleFrom(s, FALSE)

\* int(text) for a run of decimal digits, leading spaces allowed
RECURSIVE StrToInt(_)
StrToInt(s) ==
    IF s = "" THEN 0
    ELSE IF IsSpace(Char(s, 1)) THEN StrToInt(SubSeq(s, 2, Len(s)))
    ELSE StrToInt(SubSeq(s, 1, Len(s) - 1)) * 10 + DigitVal(Char(s, Len(s)))

\* str(n) for n >= 0
RECURSIVE IntToStr(_)
IntToStr(n) ==
    IF n < 10 THEN Char(Digits, n + 1)
    ELSE IntToStr(n \div 10) \o Char(Digits, (n % 10) + 1)

(***************************************************************************)
(* str() and repr() of the values a JSON document can hold                 *)
(***************************************************************************)
RECURSIVE ReprEscape(_, _)
ReprEscape(s, quote) ==
    IF s = "" THEN ""
    ELSE LET c == Char(s, 1)
             e == CASE c = "\\" -> "\\\\"
                    [] c = "\n" -> "\\n"
                    [] c = "\t" -> "\\t"
                    [] c = "\r" -> "\\r"
                    [] c = quote -> "\\" \o quote
                    [] OTHER -> c
         IN e \o ReprEscape(SubSeq(s, 2, Len(s)), quote)

\* repr of text: single quotes, unless the text holds a single quote and no
\* double quote
str_repr(s) ==
    LET quote == IF "'" \in CharSet(s) /\ "\"" \notin CharSet(s)
                 THEN "\"" ELSE "'"
    IN quote \o ReprEscape(s, quote) \o quote

RECURSIVE py_str(_)
RECURSIVE py_repr(_)
RECURSIVE ReprElems(_)
RECURSIVE ReprItems(_)

ReprElems(elems) ==
    IF elems = <<>> THEN <<>>
    ELSE <<py_repr(Head(elems))>> \o ReprElems(Tail(elems))

ReprItems(items) ==
    IF items = <<>> THEN <<>>
    ELSE <<str_repr(Head(items)[1]) \o ": " \o py_repr(Head(items)[2])>>
         \o ReprItems(Tail(items))

py_str(x) ==
    CASE x.cls = "str" -> x.v
      [] x.cls = "int" -> IF x.v < 0 THEN "-" \o IntToStr(-x.v) ELSE IntToStr(x.v)
      [] x.cls = "bool" -> IF x.v THEN "True" ELSE "False"
      [] x.cls = "float" -> x.v
      [] x.cls = "NoneType" -> "None"
      [] x.cls = "list" -> "[" \o str_join(", ", ReprElems(x.v)) \o "]"
      [] x.cls = "dict" -> "{" \o str_join(", ", ReprItems(x.v)) \o "}"

py_repr(x) == IF x.cls = "str" THEN str_repr(x.v) ELSE py_str(x)

\* d.get(key, default): the value of the last item stored under key
RECURSIVE dict_get(_, _, _)
dict_get(d, key, default) ==
    IF d.v = <<>> THEN default
    ELSE LET last == d.v[Len(d.v)]
         IN IF last[1] = key THEN last[2]
            ELSE dict_get(PyDict(SubSeq(d.v, 1, Len(d.v) - 1)), key, default)

\* key in d
dict_has(d, key) == \E i \in 1..Len(d.v) : d.v[i][1] = key

\* list(d.values())
dict_values(d) == [i \in 1..Len(d.v) |-> d.v[i][2]]

\* [str(v) for v in values if v is not None]
RECURSIVE StrOfNotNone(_)
StrOfNotNone(values) ==
    IF values = <<>> THEN <<>>
    ELSE (IF Head(values) # PyNone THEN <<py_str(Head(values))>> ELSE <<>>)
         \o StrOfNotNone(Tail(values))

(***************************************************************************)
(* datetime.strptime(data_string, "%Y-%m-%d %H:%M:%S")                     *)
(*                                                                         *)
(* The format compiles to a regular expression, one element per directive  *)
(* or literal.  An element is the sequence of its alternatives in the      *)
(* order the expression tries them; an alternative is a sequence of        *)
(* character classes.  The element with no alternative is \s+, which the   *)
(* blank of the format compiles to.                                        *)
(***************************************************************************)
D09 == "0123456789"
D19 == "123456789"

StrptimeRegex ==
    << << <<D09, D09, D09, D09>> >>,                           \* %Y
       << <<"-">> >>,
       << <<"1", "012">>, <<"0", D19>>, <<D19>> >>,            \* %m
       << <<"-">> >>,
       << <<"3", "01">>, <<"12", D09>>, <<"0", D19>>,
          <<D19>>, <<" ", D19>> >>,                            \* %d
       << >>,                                                  \* \s+
       << <<"2", "0123">>, <<"01", D09>>, <<D09>> >>,          \* %H
       << <<":">> >>,
       << <<"012345", D09>>, <<D09>> >>,                       \* %M
       << <<":">> >>,
       << <<"6", "01">>, <<"012345", D09>>, <<D09>> >> >>      \* %S

AltMatches(s, pos, alt) ==
    /\ pos + Len(alt) - 1 <= Len(s)
    /\ \A j \in 1..Len(alt) : Char(s, pos + j - 1) \in CharSet(alt[j])

\* number of whitespace characters of s from position pos on
RECURSIVE SpaceRun(_, _)
SpaceRun(s, pos) ==
    IF pos <= Len(s) /\ IsSpace(Char(s, pos)) THEN 1 + SpaceRun(s, pos + 1)
    ELSE 0

\* n, n-1, ..., 1
Countdown(n) == [i \in 1..n |-> n + 1 - i]

\* the lengths element k can consume at pos, in the order the matcher
\* tries them (\s+ is greedy)
RECURSIVE AltLens(_, _, _)
AltLens(s, pos, alts) ==
    IF alts = <<>> THEN <<>>
    ELSE (IF AltMatches(s, pos, Head(alts)) THEN <<Len(Head(alts))>> ELSE <<>>)
         \o AltLens(s, pos, Tail(alts))

ElemLens(s, pos, k) ==
    IF StrptimeRegex[k] = <<>> THEN Countdown(SpaceRun(s, pos))
    ELSE AltLens(s, pos, StrptimeRegex[k])

\* backtracking match of elements k.. against s from pos; groups are the
\* texts the elements consumed
RECURSIVE re_match(_, _, _)
RECURSIVE TryLens(_, _, _, _)
re_match(s, pos, k) ==
    IF k > Len(StrptimeRegex) THEN [ok |-> TRUE, groups |-> <<>>]
    ELSE TryLens(s, pos, k, ElemLens(s, pos, k))

TryLens(s, pos, k, lens) ==
    IF lens = <<>> THEN [ok |-> FALSE, groups |-> <<>>]
    ELSE LET n == Head(lens)
             rest == re_match(s, pos + n, k + 1)
         IN IF rest.ok
            THEN [ok |-> TRUE,
                  groups |-> <<SubSeq(s, pos, pos + n - 1)>> \o rest.groups]
            ELSE TryLens(s, pos, k, Tail(lens))

RECURSIVE TotalLen(_)
TotalLen(groups) ==
    IF groups = <<>> THEN 0 ELSE Len(Head(groups)) + TotalLen(Tail(groups))

IsLeap(year) == year % 4 = 0 /\ (year % 100 # 0 \/ year % 400 = 0)

DaysInMonth(year, month) ==
    IF month = 2 THEN (IF IsLeap(year) THEN 29 ELSE 28)
    ELSE IF month \in {4, 6, 9, 11} THEN 30 ELSE 31

datetime_strptime(data_string) ==
    LET found == re_match(data_string, 1, 1)
        g == found.groups
        end == TotalLen(g)
        year == StrToInt(g[1])
        month == StrToInt(g[3])
        day == StrToInt(g[5])
        hour == StrToInt(g[7])
        minute == StrToInt(g[9])
        second == StrToInt(g[11])
    IN IF ~found.ok
       THEN Raise(PyValueError("time data " \o str_repr(data_string)
                    \o " does not match format '%Y-%m-%d %H:%M:%S'"))
       ELSE IF end # Len(data_string)
       THEN Raise(PyValueError("unconverted data remains: "
                    \o SubSeq(data_string, end + 1, Len(data_string))))
       ELSE IF year < 1
       THEN Raise(PyValueError("year " \o IntToStr(year) \o " is out of range"))
       ELSE IF day > DaysInMonth(year, month)
       THEN Raise(PyValueError("day is out of range for month"))
       ELSE IF second > 59
       THEN Raise(PyValueError("second must be in 0..59"))
       ELSE Return(PyDatetime(year, month, day, hour, minute, second))

(***************************************************************************)
(* benchmark_exception: a failure is raised and unwinds to the runner      *)
(***************************************************************************)
\* Level 3: the only level that raises; validates and parses
validate_format_shallow_exc(datetime_str) ==
    IF ~IsStr(datetime_str)
    THEN Raise(PyTypeError("Expected string, got " \o datetime_str.cls))
    ELSE IF datetime_str.v = ""
    THEN Raise(PyValueError("Empty datetime string"))
    ELSE LET dt == datetime_strptime(datetime_str.v)
         IN IF ~dt.raised
            THEN Return(dt.value)
            ELSE Raise(PyValueError("Failed to parse datetime: " \o dt.exc.args))

\* parse_datetime_shallow_exc_arg turning a text of digits into the number it
\* spells
parse_datetime_shallow_exc_arg_numeric(timestamp_str) ==
    LET normalized == str_join(" ", str_split(timestamp_str.v))
        cleaned0 == str_replace(str_replace(str_replace(normalized,
                        ",", ""), ";", ""), "|", " ")
        cleaned == str_join(" ", str_split(cleaned0))
        temp == str_lower(str_title(cleaned))
        parts == str_split(temp)
        rejoined == str_join(" ", parts)
    IN IF rejoined # "" /\ \A i \in 1..Len(rejoined) : IsDigit(Char(rejoined, i))
       THEN PyInt(StrToInt(rejoined))
       ELSE PyStr(rejoined)

\* what parse_datetime_shallow_exc passes to the next level
parse_datetime_shallow_exc_arg(timestamp_str) ==
    LET normalized == str_join(" ", str_split(timestamp_str.v))
        cleaned0 == str_replace(str_replace(str_replace(normalized,
                        ",", ""), ";", ""), "|", " ")
        cleaned == str_join(" ", str_split(cleaned0))
        temp == str_lower(str_title(cleaned))
        parts == str_split(temp)
        rejoined == str_join(" ", parts)
    IN PyStr(rejoined)

\* Level 2: text processing, then the next level
parse_datetime_shallow_exc(timestamp_str) ==
    validate_format_shallow_exc(parse_datetime_shallow_exc_arg(timestamp_str))

\* parse_message_shallow_exc_arg taking the text of a non-dict message for
\* the timestamp
parse_message_shallow_exc_arg_msg_str(message) ==
    LET msg_str == IF ~IsDict(message) THEN py_str(message) ELSE ""
        timestamp == IF IsDict(message)
                     THEN dict_get(message, "timestamp", PyStr(""))
                     ELSE PyStr(msg_str)
        timestamp_str == IF timestamp # PyNone THEN py_str(timestamp) ELSE ""
        cleaned0 == str_replace(str_replace(str_replace(
                        str_strip(timestamp_str), "\t", " "), "\n", " "), "\r", " ")
        cleaned1 == str_join(" ", str_split(cleaned0))
        cleaned == str_strip_chars(str_strip_chars(cleaned1, {"\""}), {"'"})
    IN PyStr(cleaned)

\* what parse_message_shallow_exc passes to the next level
parse_message_shallow_exc_arg(message) ==
    LET msg_str == IF ~IsDict(message) THEN py_str(message) ELSE ""
        timestamp == IF IsDict(message)
                     THEN dict_get(message, "timestamp", PyStr(""))
                     ELSE PyStr("")
        timestamp_str == IF timestamp # PyNone THEN py_str(timestamp) ELSE ""
        cleaned0 == str_replace(str_replace(str_replace(
                        str_strip(timestamp_str), "\t", " "), "\n", " "), "\r", " ")
        cleaned1 == str_join(" ", str_split(cleaned0))
        cleaned == str_strip_chars(str_strip_chars(cleaned1, {"\""}), {"'"})
    IN PyStr(cleaned)

\* Level 1: extracts the timestamp field, then the next level
parse_message_shallow_exc(message) ==
    parse_datetime_shallow_exc(parse_message_shallow_exc_arg(message))

\* Level 5: the only level that raises; validates and parses
validate_format_deep_exc(datetime_str) ==
    IF ~IsStr(datetime_str)
    THEN Raise(PyTypeError("Expected string, got " \o datetime_str.cls))
    ELSE IF datetime_str.v = ""
    THEN Raise(PyValueError("Empty datetime string"))
    ELSE LET dt == datetime_strptime(datetime_str.v)
         IN IF ~dt.raised
            THEN Return(dt.value)
            ELSE Raise(PyValueError("Failed to parse datetime: " \o dt.exc.args))

\* what parse_datetime_deep_exc passes to the next level
parse_datetime_deep_exc_arg(timestamp_str) ==
    LET normalized == str_join(" ", str_split(timestamp_str.v))
        cleaned0 == str_replace(str_replace(str_replace(normalized,
                        ",", ""), ";", ""), "|", " ")
        cleaned == str_join(" ", str_split(cleaned0))
        temp == str_lower(str_title(cleaned))
        parts == str_split(temp)
        rejoined == str_join(" ", parts)
    IN PyStr(rejoined)

\* Level 4: text processing, then the next level
parse_datetime_deep_exc(timestamp_str) ==
    validate_format_deep_exc(parse_datetime_deep_exc_arg(timestamp_str))

\* what parse_message_deep_exc passes to the next level
parse_message_deep_exc_arg(message) ==
    LET timestamp == IF IsDict(message)
                     THEN dict_get(message, "timestamp", PyStr(""))
                     ELSE PyStr("")
        timestamp_str == IF timestamp # PyNone THEN py_str(timestamp) ELSE ""
        normalized == str_strip(timestamp_str)
        cleaned == str_replace(str_replace(str_replace(
                        normalized, "\t", " "), "\n", " "), "\r", " ")
    IN PyStr(cleaned)

\* Level 3: extracts the timestamp field, then the next level
parse_message_deep_exc(message) ==
    parse_datetime_deep_exc(parse_message_deep_exc_arg(message))

\* what validate_message_deep_exc passes to the next level
validate_message_deep_exc_arg(message) ==
    LET msg_dict == IF IsDict(message) THEN message ELSE PyDict(<<>>)
        str_values == StrOfNotNone(dict_values(msg_dict))
        concatenated == str_join(" ", str_values)
        processed == str_lower(str_upper(str_lower(str_strip(concatenated))))
    IN msg_dict

\* validate_message_deep_exc with a handler of its own around the call of the
\* next level, which raises an error of the stage in place of the one it caught
validate_message_deep_exc_catching(message) ==
    LET call == parse_message_deep_exc(validate_message_deep_exc_arg(message))
    IN IF call.raised THEN Raise(PyValueError("Invalid message")) ELSE call

\* Level 2: processes the message fields (result discarded), then the
\* next level with the message, or an empty dict for a non-dict
validate_message_deep_exc(message) ==
    parse_message_deep_exc(validate_message_deep_exc_arg(message))

\* what process_batch_deep_exc passes to the next level
process_batch_deep_exc_arg(message) ==
    LET msg_str == py_str(message)
        processed == str_replace(str_strip(msg_str), "  ", " ")
        char_count == Len(processed)
        normalized == str_lower(str_upper(str_lower(processed)))
    IN message

\* Level 1: top-level normalization (result discarded), then the next
\* level with the original message
process_batch_deep_exc(message) ==
    validate_message_deep_exc(process_batch_deep_exc_arg(message))

(***************************************************************************)
(* benchmark_tuple: every stage returns <<result, err>>                    *)
(***************************************************************************)
\* ForwardPair that leaves the error slot empty as well when it returns early
ForwardPair_no_error(r) ==
    LET result == r[1]
        err == r[2]
    IN IF err # PyNone THEN <<PyNone, PyNone>> ELSE <<result, PyNone>>

\* what a stage does with the pair r the next level returned:
\*   result, err = r; if err is not None: return None, err; return result, None
ForwardPair(r) ==
    LET result == r[1]
        err == r[2]
    IN IF err # PyNone THEN <<PyNone, err>> ELSE <<result, PyNone>>

\* Level 3: the only level that returns errors; validates and parses
validate_format_shallow_tuple(datetime_str) ==
    IF ~IsStr(datetime_str)
    THEN <<PyNone, PyTypeError("Expected string, got " \o datetime_str.cls)>>
    ELSE IF datetime_str.v = ""
    THEN <<PyNone, PyValueError("Empty datetime string")>>
    ELSE LET dt == datetime_strptime(datetime_str.v)
         IN IF ~dt.raised
            THEN <<dt.value, PyNone>>
            ELSE <<PyNone, PyValueError("Failed to parse datetime: " \o dt.exc.args)>>

\* what parse_datetime_shallow_tuple passes to the next level
parse_datetime_shallow_tuple_arg(timestamp_str) ==
    LET normalized == str_join(" ", str_split(timestamp_str.v))
        cleaned0 == str_replace(str_replace(str_replace(normalized,
                        ",", ""), ";", ""), "|", " ")
        cleaned == str_join(" ", str_split(cleaned0))
        temp == str_lower(str_title(cleaned))
        parts == str_split(temp)
        rejoined == str_join(" ", parts)
    IN PyStr(rejoined)

\* parse_datetime_shallow_tuple without the check of the error slot
parse_datetime_shallow_tuple_unchecked(timestamp_str) ==
    LET r == validate_format_shallow_tuple(parse_datetime_shallow_tuple_arg(timestamp_str))
        result == r[1]
    IN <<result, PyNone>>

\* Level 2: text processing, then the next level
parse_datetime_shallow_tuple(timestamp_str) ==
    ForwardPair(
        validate_format_shallow_tuple(parse_datetime_shallow_tuple_arg(timestamp_str)))

\* parse_message_shallow_tuple_arg without the test for None
parse_message_shallow_tuple_arg_str_none(message) ==
    LET timestamp == IF IsDict(message)
                     THEN dict_get(message, "timestamp", PyStr(""))
                     ELSE PyStr("")
        timestamp_str == py_str(timestamp)
        cleaned0 == str_replace(str_replace(str_replace(
                        str_strip(timestamp_str), "\t", " "), "\n", " "), "\r", " ")
        cleaned1 == str_join(" ", str_split(cleaned0))
        cleaned == str_strip_chars(str_strip_chars(cleaned1, {"\""}), {"'"})
    IN PyStr(cleaned)

\* what parse_message_shallow_tuple passes to the next level
parse_message_shallow_tuple_arg(message) ==
    LET msg_str == IF ~IsDict(message) THEN py_str(message) ELSE ""
        timestamp == IF IsDict(message)
                     THEN dict_get(message, "timestamp", PyStr(""))
                     ELSE PyStr("")
        timestamp_str == IF timestamp # PyNone THEN py_str(timestamp) ELSE ""
        cleaned0 == str_replace(str_replace(str_replace(
                        str_strip(timestamp_str), "\t", " "), "\n", " "), "\r", " ")
        cleaned1 == str_join(" ", str_split(cleaned0))
        cleaned == str_strip_chars(str_strip_chars(cleaned1, {"\""}), {"'"})
    IN PyStr(cleaned)

\* Level 1: extracts the timestamp field, then the next level
parse_message_shallow_tuple(message) ==
    ForwardPair(
        parse_datetime_shallow_tuple(parse_message_shallow_tuple_arg(message)))

\* validate_format_deep_tuple returning no error when the parse fails
validate_format_deep_tuple_no_error(datetime_str) ==
    IF ~IsStr(datetime_str)
    THEN <<PyNone, PyTypeError("Expected string, got " \o datetime_str.cls)>>
    ELSE IF datetime_str.v = ""
    THEN <<PyNone, PyValueError("Empty datetime string")>>
    ELSE LET dt == datetime_strptime(datetime_str.v)
         IN IF ~dt.raised
            THEN <<dt.value, PyNone>>
            ELSE <<PyNone, PyNone>>

\* Level 5: the only level that returns errors; validates and parses
validate_format_deep_tuple(datetime_str) ==
    IF ~IsStr(datetime_str)
    THEN <<PyNone, PyTypeError("Expected string, got " \o datetime_str.cls)>>
    ELSE IF datetime_str.v = ""
    THEN <<PyNone, PyValueError("Empty datetime string")>>
    ELSE LET dt == datetime_strptime(datetime_str.v)
         IN IF ~dt.raised
            THEN <<dt.value, PyNone>>
            ELSE <<PyNone, PyValueError("Failed to parse datetime: " \o dt.exc.args)>>

\* what parse_datetime_deep_tuple passes to the next level
parse_datetime_deep_tuple_arg(timestamp_str) ==
    LET normalized == str_join(" ", str_split(timestamp_str.v))
        cleaned0 == str_replace(str_replace(str_replace(normalized,
                        ",", ""), ";", ""), "|", " ")
        cleaned == str_join(" ", str_split(cleaned0))
        temp == str_lower(str_title(cleaned))
        parts == str_split(temp)
        rejoined == str_join(" ", parts)
    IN PyStr(rejoined)

\* parse_datetime_deep_tuple returning an error of its own for the one it got
parse_datetime_deep_tuple_wrapping(timestamp_str) ==
    LET r == validate_format_deep_tuple(parse_datetime_deep_tuple_arg(timestamp_str))
        result == r[1]
        err == r[2]
    IN IF err # PyNone
       THEN <<PyNone, PyValueError("parse_datetime failed: " \o err.args)>>
       ELSE <<result, PyNone>>

\* Level 4: text processing, then the next level
parse_datetime_deep_tuple(timestamp_str) ==
    ForwardPair(
        validate_format_deep_tuple(parse_datetime_deep_tuple_arg(timestamp_str)))

\* what parse_message_deep_tuple passes to the next level
parse_message_deep_tuple_arg(message) ==
    LET timestamp == IF IsDict(message)
                     THEN dict_get(message, "timestamp", PyStr(""))
                     ELSE PyStr("")
        timestamp_str == IF timestamp # PyNone THEN py_str(timestamp) ELSE ""
        normalized == str_strip(timestamp_str)
        cleaned == str_replace(str_replace(str_replace(
                        normalized, "\t", " "), "\n", " "), "\r", " ")
    IN PyStr(cleaned)

\* Level 3: extracts the timestamp field, then the next level
parse_message_deep_tuple(message) ==
    ForwardPair(
        parse_datetime_deep_tuple(parse_message_deep_tuple_arg(message)))

\* what validate_message_deep_tuple passes to the next level
validate_message_deep_tuple_arg(message) ==
    LET msg_dict == IF IsDict(message) THEN message ELSE PyDict(<<>>)
        str_values == StrOfNotNone(dict_values(msg_dict))
        concatenated == str_join(" ", str_values)
        processed == str_lower(str_upper(str_lower(str_strip(concatenated))))
    IN msg_dict

\* Level 2: processes the message fields (result discarded), then the
\* next level with the message, or an empty dict for a non-dict
validate_message_deep_tuple(message) ==
    ForwardPair(
        parse_message_deep_tuple(validate_message_deep_tuple_arg(message)))

\* what process_batch_deep_tuple passes to the next level
process_batch_deep_tuple_arg(message) ==
    LET msg_str == py_str(message)
        processed == str_replace(str_strip(msg_str), "  ", " ")
        char_count == Len(processed)
        normalized == str_lower(str_upper(str_lower(processed)))
    IN message

\* Level 1: top-level normalization (result discarded), then the next
\* level with the original message
process_batch_deep_tuple(message) ==
    ForwardPair(
        validate_message_deep_tuple(process_batch_deep_tuple_arg(message)))

(***************************************************************************)
(* benchmark_union: every stage returns a result or an exception           *)
(***************************************************************************)
\* what a stage does with the result the next level returned:
\*   if isinstance(result, Exception): return result; return result
ForwardUnion(result) ==
    IF IsException(result) THEN result ELSE result

\* Level 3: the only level that returns errors; validates and parses
validate_format_shallow_union(datetime_str) ==
    IF ~IsStr(datetime_str)
    THEN PyTypeError("Expected string, got " \o datetime_str.cls)
    ELSE IF datetime_str.v = ""
    THEN PyValueError("Empty datetime string")
    ELSE LET dt == datetime_strptime(datetime_str.v)
         IN IF ~dt.raised
            THEN dt.value
            ELSE PyValueError("Failed to parse datetime: " \o dt.exc.args)

\* what parse_datetime_shallow_union passes to the next level
parse_datetime_shallow_union_arg(timestamp_str) ==
    LET normalized == str_join(" ", str_split(timestamp_str.v))
        cleaned0 == str_replace(str_replace(str_replace(normalized,
                        ",", ""), ";", ""), "|", " ")
        cleaned == str_join(" ", str_split(cleaned0))
        temp == str_lower(str_title(cleaned))
        parts == str_split(temp)
        rejoined == str_join(" ", parts)
    IN PyStr(rejoined)

\* Level 2: text processing, then the next level
parse_datetime_shallow_union(timestamp_str) ==
    ForwardUnion(
        validate_format_shallow_union(parse_datetime_shallow_union_arg(timestamp_str)))

\* what parse_message_shallow_union passes to the next level
parse_message_shallow_union_arg(message) ==
    LET msg_str == IF ~IsDict(message) THEN py_str(message) ELSE ""
        timestamp == IF IsDict(message)
                     THEN dict_get(message, "timestamp", PyStr(""))
                     ELSE PyStr("")
        timestamp_str == IF timestamp # PyNone THEN py_str(timestamp) ELSE ""
        cleaned0 == str_replace(str_replace(str_replace(
                        str_strip(timestamp_str), "\t", " "), "\n", " "), "\r", " ")
        cleaned1 == str_join(" ", str_split(cleaned0))
        cleaned == str_strip_chars(str_strip_chars(cleaned1, {"\""}), {"'"})
    IN PyStr(cleaned)

\* Level 1: extracts the timestamp field, then the next level
parse_message_shallow_union(message) ==
    ForwardUnion(
        parse_datetime_shallow_union(parse_message_shallow_union_arg(message)))

\* Level 5: the only level that returns errors; validates and parses
validate_format_deep_union(datetime_str) ==
    IF ~IsStr(datetime_str)
    THEN PyTypeError("Expected string, got " \o datetime_str.cls)
    ELSE IF datetime_str.v = ""
    THEN PyValueError("Empty datetime string")
    ELSE LET dt == datetime_strptime(datetime_str.v)
         IN IF ~dt.raised
            THEN dt.value
            ELSE PyValueError("Failed to parse datetime: " \o dt.exc.args)

\* parse_datetime_deep_union_arg with the hyphen among the punctuation it removes
parse_datetime_deep_union_arg_hyphen(timestamp_str) ==
    LET normalized == str_join(" ", str_split(timestamp_str.v))
        cleaned0 == str_replace(str_replace(str_replace(str_replace(normalized,
                        ",", ""), ";", ""), "|", " "), "-", "")
        cleaned == str_join(" ", str_split(cleaned0))
        temp == str_lower(str_title(cleaned))
        parts == str_split(temp)
        rejoined == str_join(" ", parts)
    IN PyStr(rejoined)

\* what parse_datetime_deep_union passes to the next level
parse_datetime_deep_union_arg(timestamp_str) ==
    LET normalized == str_join(" ", str_split(timestamp_str.v))
        cleaned0 == str_replace(str_replace(str_replace(normalized,
                        ",", ""), ";", ""), "|", " ")
        cleaned == str_join(" ", str_split(cleaned0))
        temp == str_lower(str_title(cleaned))
        parts == str_split(temp)
        rejoined == str_join(" ", parts)
    IN PyStr(rejoined)

\* Level 4: text processing, then the next level
parse_datetime_deep_union(timestamp_str) ==
    ForwardUnion(
        validate_format_deep_union(parse_datetime_deep_union_arg(timestamp_str)))

\* what parse_message_deep_union passes to the next level
parse_message_deep_union_arg(message) ==
    LET timestamp == IF IsDict(message)
                     THEN dict_get(message, "timestamp", PyStr(""))
                     ELSE PyStr("")
        timestamp_str == IF timestamp # PyNone THEN py_str(timestamp) ELSE ""
        normalized == str_strip(timestamp_str)
        cleaned == str_replace(str_replace(str_replace(
                        normalized, "\t", " "), "\n", " "), "\r", " ")
    IN PyStr(cleaned)

\* Level 3: extracts the timestamp field, then the next level
parse_message_deep_union(message) ==
    ForwardUnion(
        parse_datetime_deep_union(parse_message_deep_union_arg(message)))

\* what validate_message_deep_union passes to the next level
validate_message_deep_union_arg(message) ==
    LET msg_dict == IF IsDict(message) THEN message ELSE PyDict(<<>>)
        str_values == StrOfNotNone(dict_values(msg_dict))
        concatenated == str_join(" ", str_values)
        processed == str_lower(str_upper(str_lower(str_strip(concatenated))))
    IN msg_dict

\* Level 2: processes the message fields (result discarded), then the
\* next level with the message, or an empty dict for a non-dict
validate_message_deep_union(message) ==
    ForwardUnion(
        parse_message_deep_union(validate_message_deep_union_arg(message)))

\* what process_batch_deep_union passes to the next level
process_batch_deep_union_arg(message) ==
    LET msg_str == py_str(message)
        processed == str_replace(str_strip(msg_str), "  ", " ")
        char_count == Len(processed)
        normalized == str_lower(str_upper(str_lower(processed)))
    IN message

\* Level 1: top-level normalization (result discarded), then the next
\* level with the original message
process_batch_deep_union(message) ==
    ForwardUnion(
        validate_message_deep_union(process_batch_deep_union_arg(message)))

(***************************************************************************)
(* The test cases                                                          *)
(***************************************************************************)
\* a test case record as json.load yields it
TestCase(id, message, expected_valid) ==
    PyDict(<< <<"id", PyInt(id)>>, <<"message", message>>,
              <<"expected_valid", PyBool(expected_valid)>> >>)

Timestamped(ts) ==
    PyDict(<< <<"timestamp", ts>>, <<"user", PyStr("user_1")>>,
              <<"data", PyStr("message content 1")>> >>)

\* the messages the batches are drawn from: the generator's five kinds of
\* message, and timestamps that the normalising stages change
Messages ==
    << Timestamped(PyStr("2024-01-15 10:30:45")),
       PyDict(<< <<"timestamp", PyStr("2024-02-29 09:30:15")>> >>),
       Timestamped(PyStr(" 2024-01-15\t10:30:45;\n")),
       Timestamped(PyStr("\"2024-01-15 10:30:45\"")),
       PyDict(<< <<"user", PyStr("x")>> >>),
       PyDict(<< <<"timestamp", PyNone>>, <<"user", PyStr("x")>> >>),
       Timestamped(PyStr("2024-02-30 10:30:45")),
       Timestamped(PyStr("2024-1-5 10:30:45")),
       Timestamped(PyStr("not-a-datetime")),
       Timestamped(PyInt(123456)),
       PyDict(<< <<"timestamp",
                   PyList(<<PyStr("2024-01-15"), PyStr("10:30:45")>>)>> >>),
       PyNone,
       PyStr("not a dict"),
       PyList(<<PyStr("list"), PyStr("of"), PyStr("items")>>) >>

\* the generator labels a case valid when its timestamp is one of its
\* valid_datetimes
ValidLabelled == {1, 2}

TestCases ==
    {TestCase(k, Messages[k], k \in ValidLabelled) : k \in 1..Len(Messages)}

\* longest batch
MaxBatch == 2

Batches == UNION {[1..n -> TestCases] : n \in 0..MaxBatch}

(***************************************************************************)
(* run_all_benchmarks: the six runners, in the order they are run          *)
(***************************************************************************)
Benchmarks ==
    << [name |-> "Exception Handling - Shallow Stack", func |-> "run_shallow_exc",
        patterns |-> <<"validate_format_shallow_exc", "parse_datetime_shallow_exc",
                       "parse_message_shallow_exc">>],
       [name |-> "Exception Handling - Deep Stack", func |-> "run_deep_exc",
        patterns |-> <<"validate_format_deep_exc", "parse_datetime_deep_exc",
                       "parse_message_deep_exc", "validate_message_deep_exc",
                       "process_batch_deep_exc">>],
       [name |-> "Union Error (Result | Exception) - Shallow Stack",
        func |-> "run_shallow_union",
        patterns |-> <<"validate_format_shallow_union", "parse_datetime_shallow_union",
                       "parse_message_shallow_union">>],
       [name |-> "Union Error (Result | Exception) - Deep Stack",
        func |-> "run_deep_union",
        patterns |-> <<"validate_format_deep_union", "parse_datetime_deep_union",
                       "parse_message_deep_union", "validate_message_deep_union",
                       "process_batch_deep_union">>],
       [name |-> "Tuple Error (Result, Error) - Shallow Stack",
        func |-> "run_shallow_tuple",
        patterns |-> <<"validate_format_shallow_tuple", "parse_datetime_shallow_tuple",
                       "parse_message_shallow_tuple">>],
       [name |-> "Tuple Error (Result, Error) - Deep Stack",
        func |-> "run_deep_tuple",
        patterns |-> <<"validate_format_deep_tuple", "parse_datetime_deep_tuple",
                       "parse_message_deep_tuple", "validate_message_deep_tuple",
                       "process_batch_deep_tuple">>] >>

VARIABLES
    test_cases,   \* the batch that load_test_cases returned
    benchmarks,   \* the list of runs that are profiled, one after another
    bench,        \* position of the loop over benchmarks
    pc,           \* "bench": between runs, "loop": inside a runner,
                  \* "crashed": an exception escaped, "done": all runs over;
                  \* then the steps of the report: "print", "compare",
                  \* "findings", "save_json", "save_text", "end"
    idx,          \* position of the runner's loop in test_cases
    results,      \* the runner's results dict
    log,          \* one entry per call of an entry point: what the runner
                  \* passed and what it observed
    all_results,  \* run_all_benchmarks' results, in the order they were stored
    profilers,    \* the cProfile.Profile objects created so far, each
                  \* "enabled" or "disabled"
    total_time,   \* total_time[k]: what the clock measured for run k, in ticks
    stats,        \* stats[k]: the pstats of run k, a sequence of entries
                  \* [func_name, nc, tt, ct]
    output        \* what the report has printed and saved so far

report_vars == <<total_time, stats, output>>

vars == <<test_cases, benchmarks, bench, pc, idx, results, log, all_results,
          profilers, report_vars>>

NewResults == [success |-> 0, failure |-> 0, errors |-> <<>>]

Init ==
    /\ test_cases \in Batches
    /\ benchmarks = Benchmarks
    /\ bench = 1
    /\ pc = "bench"
    /\ idx = 0
    /\ results = NewResults
    /\ log = <<>>
    /\ all_results = <<>>
    /\ profilers = <<>>
    /\ total_time = <<>>
    /\ stats = <<>>
    /\ output = <<>>

\* profile_function calling a runner that goes on with the results dict of the
\* run before
profile_function_stale ==
    /\ pc = "bench"
    /\ bench <= Len(benchmarks)
    /\ profilers' = Append(profilers, "enabled")
    /\ pc' = "loop"
    /\ idx' = 1
    /\ UNCHANGED <<test_cases, benchmarks, bench, results, log, all_results,
                   report_vars>>

\* profile_function creates a profiler, enables it and calls the next runner,
\* which creates its results dict
profile_function ==
    /\ pc = "bench"
    /\ bench <= Len(benchmarks)
    /\ profilers' = Append(profilers, "enabled")
    /\ pc' = "loop"
    /\ idx' = 1
    /\ results' = NewResults
    /\ UNCHANGED <<test_cases, benchmarks, bench, log, all_results, report_vars>>

Running(func) ==
    /\ pc = "loop"
    /\ benchmarks[bench].func = func

\* results["success"] += 1
TallySuccess(func, message, value) ==
    /\ results' = [results EXCEPT !.success = @ + 1]
    /\ log' = Append(log, [func |-> func, index |-> idx, message |-> message,
                           success |-> TRUE, value |-> value, error |-> PyNone])

\* TallyFailure recording the kind without counting the failure
TallyFailure_uncounted(func, message, e) ==
    /\ results' = [results EXCEPT !.errors = Append(@, e.cls)]
    /\ log' = Append(log, [func |-> func, index |-> idx, message |-> message,
                           success |-> FALSE, value |-> PyNone, error |-> e])

\* TallyFailure putting the kind in front of the list
TallyFailure_prepending(func, message, e) ==
    /\ results' = [results EXCEPT !.failure = @ + 1,
                                  !.errors = <<e.cls>> \o @]
    /\ log' = Append(log, [func |-> func, index |-> idx, message |-> message,
                           success |-> FALSE, value |-> PyNone, error |-> e])

\* results["failure"] += 1; results["errors"].append(type(e).__name__)
TallyFailure(func, message, e) ==
    /\ results' = [results EXCEPT !.failure = @ + 1,
                                  !.errors = Append(@, e.cls)]
    /\ log' = Append(log, [func |-> func, index |-> idx, message |-> message,
                           success |-> FALSE, value |-> PyNone, error |-> e])

\* ReturnResults of a profile_function that does not disable its profiler
ReturnResults_left_enabled ==
    /\ idx > Len(test_cases)
    /\ all_results' = Append(all_results,
                             [name |-> benchmarks[bench].name, result |-> results])
    /\ bench' = bench + 1
    /\ pc' = IF bench = Len(benchmarks) THEN "done" ELSE "bench"
    /\ UNCHANGED <<test_cases, benchmarks, idx, results, log, profilers, report_vars>>

\* ReturnResults of a runner that has taken the cases off the list it was given
ReturnResults_consumed ==
    /\ idx > Len(test_cases)
    /\ test_cases' = <<>>
    /\ profilers' = [profilers EXCEPT ![Len(profilers)] = "disabled"]
    /\ all_results' = Append(all_results,
                             [name |-> benchmarks[bench].name, result |-> results])
    /\ bench' = bench + 1
    /\ pc' = IF bench = Len(benchmarks) THEN "done" ELSE "bench"
    /\ UNCHANGED <<benchmarks, idx, results, log, report_vars>>

\* return results: profile_function disables its profiler, and
\* run_all_benchmarks stores the results under the benchmark's name
ReturnResults ==
    /\ idx > Len(test_cases)
    /\ profilers' = [profilers EXCEPT ![Len(profilers)] = "disabled"]
    /\ all_results' = Append(all_results,
                             [name |-> benchmarks[bench].name, result |-> results])
    /\ bench' = bench + 1
    /\ pc' = IF bench = Len(benchmarks) THEN "done" ELSE "bench"
    /\ UNCHANGED <<test_cases, benchmarks, idx, results, log, report_vars>>

\* an exception that nothing catches ends the program
Crash ==
    /\ pc' = "crashed"
    /\ UNCHANGED <<test_cases, benchmarks, bench, idx, results, log, all_results,
                   profilers, report_vars>>

\* run_shallow_exc: the lookup and the call are inside the try, so whatever is
\* raised is tallied; after the last case the results are returned
run_shallow_exc ==
    /\ Running("run_shallow_exc")
    /\ \/ /\ idx <= Len(test_cases)
          /\ LET test_case == test_cases[idx]
                 message == dict_get(test_case, "message", PyNone)
                 call == IF dict_has(test_case, "message")
                         THEN parse_message_shallow_exc(message)
                         ELSE Raise(PyKeyError("'message'"))
             IN IF ~call.raised
                THEN TallySuccess("run_shallow_exc", message, call.value)
                ELSE TallyFailure("run_shallow_exc", message, call.exc)
          /\ idx' = idx + 1
          /\ UNCHANGED <<test_cases, benchmarks, bench, pc, all_results,
                                  profilers, report_vars>>
       \/ ReturnResults

\* run_deep_exc with nothing to catch what the entry point raises
run_deep_exc_uncaught ==
    /\ Running("run_deep_exc")
    /\ \/ /\ idx <= Len(test_cases)
          /\ LET test_case == test_cases[idx]
                 message == dict_get(test_case, "message", PyNone)
                 call == IF dict_has(test_case, "message")
                         THEN process_batch_deep_exc(message)
                         ELSE Raise(PyKeyError("'message'"))
             IN IF ~call.raised
                THEN /\ TallySuccess("run_deep_exc", message, call.value)
                     /\ idx' = idx + 1
                     /\ UNCHANGED <<test_cases, benchmarks, bench, pc, all_results,
                                  profilers, report_vars>>
                ELSE Crash
       \/ ReturnResults

\* run_deep_exc: the lookup and the call are inside the try, so whatever is
\* raised is tallied; after the last case the results are returned
run_deep_exc ==
    /\ Running("run_deep_exc")
    /\ \/ /\ idx <= Len(test_cases)
          /\ LET test_case == test_cases[idx]
                 message == dict_get(test_case, "message", PyNone)
                 call == IF dict_has(test_case, "message")
                         THEN process_batch_deep_exc(message)
                         ELSE Raise(PyKeyError("'message'"))
             IN IF ~call.raised
                THEN TallySuccess("run_deep_exc", message, call.value)
                ELSE TallyFailure("run_deep_exc", message, call.exc)
          /\ idx' = idx + 1
          /\ UNCHANGED <<test_cases, benchmarks, bench, pc, all_results,
                                  profilers, report_vars>>
       \/ ReturnResults

\* run_shallow_tuple with the lookup and the call inside a try, as in the
\* Raising runner
run_shallow_tuple_guarded ==
    /\ Running("run_shallow_tuple")
    /\ \/ /\ idx <= Len(test_cases)
          /\ LET test_case == test_cases[idx]
                 message == dict_get(test_case, "message", PyNone)
                 r == parse_message_shallow_tuple(message)
                 result == r[1]
                 err == r[2]
             IN IF ~dict_has(test_case, "message")
                THEN TallyFailure("run_shallow_tuple", message,
                                  PyKeyError("'message'"))
                ELSE IF err # PyNone
                THEN TallyFailure("run_shallow_tuple", message, err)
                ELSE TallySuccess("run_shallow_tuple", message, result)
          /\ idx' = idx + 1
          /\ UNCHANGED <<test_cases, benchmarks, bench, pc, all_results,
                                  profilers, report_vars>>
       \/ ReturnResults

\* run_shallow_tuple: the lookup is not guarded; the error slot decides the tally;
\* after the last case the results are returned
run_shallow_tuple ==
    /\ Running("run_shallow_tuple")
    /\ \/ /\ idx <= Len(test_cases)
          /\ LET test_case == test_cases[idx]
                 message == dict_get(test_case, "message", PyNone)
                 r == parse_message_shallow_tuple(message)
                 result == r[1]
                 err == r[2]
             IN IF ~dict_has(test_case, "message") THEN Crash
                ELSE /\ IF err # PyNone
                        THEN TallyFailure("run_shallow_tuple", message, err)
                        ELSE TallySuccess("run_shallow_tuple", message, result)
                     /\ idx' = idx + 1
                     /\ UNCHANGED <<test_cases, benchmarks, bench, pc, all_results,
                                  profilers, report_vars>>
       \/ ReturnResults

\* run_deep_tuple: the lookup is not guarded; the error slot decides the tally;
\* after the last case the results are returned
run_deep_tuple ==
    /\ Running("run_deep_tuple")
    /\ \/ /\ idx <= Len(test_cases)
          /\ LET test_case == test_cases[idx]
                 message == dict_get(test_case, "message", PyNone)
                 r == process_batch_deep_tuple(message)
                 result == r[1]
                 err == r[2]
             IN IF ~dict_has(test_case, "message") THEN Crash
                ELSE /\ IF err # PyNone
                        THEN TallyFailure("run_deep_tuple", message, err)
                        ELSE TallySuccess("run_deep_tuple", message, result)
                     /\ idx' = idx + 1
                     /\ UNCHANGED <<test_cases, benchmarks, bench, pc, all_results,
                                  profilers, report_vars>>
       \/ ReturnResults

\* run_shallow_union: the lookup is not guarded; the variant of the result decides
\* the tally; after the last case the results are returned
run_shallow_union ==
    /\ Running("run_shallow_union")
    /\ \/ /\ idx <= Len(test_cases)
          /\ LET test_case == test_cases[idx]
                 message == dict_get(test_case, "message", PyNone)
                 result == parse_message_shallow_union(message)
             IN IF ~dict_has(test_case, "message") THEN Crash
                ELSE /\ IF IsException(result)
                        THEN TallyFailure("run_shallow_union", message, result)
                        ELSE TallySuccess("run_shallow_union", message, result)
                     /\ idx' = idx + 1
                     /\ UNCHANGED <<test_cases, benchmarks, bench, pc, all_results,
                                  profilers, report_vars>>
       \/ ReturnResults

\* run_deep_union: the lookup is not guarded; the variant of the result decides
\* the tally; after the last case the results are returned
run_deep_union ==
    /\ Running("run_deep_union")
    /\ \/ /\ idx <= Len(test_cases)
          /\ LET test_case == test_cases[idx]
                 message == dict_get(test_case, "message", PyNone)
                 result == process_batch_deep_union(message)
             IN IF ~dict_has(test_case, "message") THEN Crash
                ELSE /\ IF IsException(result)
                        THEN TallyFailure("run_deep_union", message, result)
                        ELSE TallySuccess("run_deep_union", message, result)
                     /\ idx' = idx + 1
                     /\ UNCHANGED <<test_cases, benchmarks, bench, pc, all_results,
                                  profilers, report_vars>>
       \/ ReturnResults

Next ==
    \/ profile_function
    \/ run_shallow_exc
    \/ run_deep_exc
    \/ run_shallow_union
    \/ run_deep_union
    \/ run_shallow_tuple
    \/ run_deep_tuple

Spec == Init /\ [][Next]_vars

\* the same batch through the same entry point twice in a row: the list of
\* runs holds one benchmark two times
RerunInit ==
    /\ test_cases \in Batches
    /\ benchmarks \in {<<Benchmarks[k], Benchmarks[k]>> : k \in 1..Len(Benchmarks)}
    /\ bench = 1
    /\ pc = "bench"
    /\ idx = 0
    /\ results = NewResults
    /\ log = <<>>
    /\ all_results = <<>>
    /\ profilers = <<>>
    /\ total_time = <<>>
    /\ stats = <<>>
    /\ output = <<>>

RerunSpec == RerunInit /\ [][Next]_vars

\* records of a JSON file that need not have a "message" field: a valid test
\* case, one without timestamp, and a record of an id and a label only
Records ==
    { TestCase(1, Messages[1], TRUE),
      TestCase(5, Messages[5], FALSE),
      PyDict(<< <<"id", PyInt(0)>>, <<"expected_valid", PyBool(FALSE)>> >>) }

RecordBatches == UNION {[1..n -> Records] : n \in 0..MaxBatch}

\* any file of such records has been loaded
RecordsInit ==
    /\ test_cases \in RecordBatches
    /\ benchmarks = Benchmarks
    /\ bench = 1
    /\ pc = "bench"
    /\ idx = 0
    /\ results = NewResults
    /\ log = <<>>
    /\ all_results = <<>>
    /\ profilers = <<>>
    /\ total_time = <<>>
    /\ stats = <<>>
    /\ output = <<>>

RecordsSpec == RecordsInit /\ [][Next]_vars

\* profile_function(func, test_cases) for any one of the six runners and any
\* loaded file, of test cases or of records that need not have a "message"
\* field: the list of runs holds that one benchmark
AnyRunInit ==
    /\ test_cases \in Batches \cup RecordBatches
    /\ benchmarks \in {<<Benchmarks[k]>> : k \in 1..Len(Benchmarks)}
    /\ bench = 1
    /\ pc = "bench"
    /\ idx = 0
    /\ results = NewResults
    /\ log = <<>>
    /\ all_results = <<>>
    /\ profilers = <<>>
    /\ total_time = <<>>
    /\ stats = <<>>
    /\ output = <<>>

AnyRunSpec == AnyRunInit /\ [][Next]_vars

(***************************************************************************)
(* cProfile: the calls of stage functions that the profiler of a run       *)
(* records                                                                 *)
(***************************************************************************)
\* the calls made while the Raising runner func processes test_case, in the
\* order they are made, each with the argument it is given: none when the
\* lookup of "message" raises; else the entry point, and every stage ends by
\* calling the next one with what it has prepared
ExcCalls(func, test_case) ==
    LET m == dict_get(test_case, "message", PyNone)
    IN IF ~dict_has(test_case, "message") THEN <<>>
       ELSE IF func = "run_shallow_exc"
       THEN << [func_name |-> "parse_message_shallow_exc", arg |-> m],
               [func_name |-> "parse_datetime_shallow_exc",
                arg |-> parse_message_shallow_exc_arg(m)],
               [func_name |-> "validate_format_shallow_exc",
                arg |-> parse_datetime_shallow_exc_arg(
                            parse_message_shallow_exc_arg(m))] >>
       ELSE << [func_name |-> "process_batch_deep_exc", arg |-> m],
               [func_name |-> "validate_message_deep_exc",
                arg |-> process_batch_deep_exc_arg(m)],
               [func_name |-> "parse_message_deep_exc",
                arg |-> validate_message_deep_exc_arg(
                            process_batch_deep_exc_arg(m))],
               [func_name |-> "parse_datetime_deep_exc",
                arg |-> parse_message_deep_exc_arg(validate_message_deep_exc_arg(
                            process_batch_deep_exc_arg(m)))],
               [func_name |-> "validate_format_deep_exc",
                arg |-> parse_datetime_deep_exc_arg(parse_message_deep_exc_arg(
                            validate_message_deep_exc_arg(
                                process_batch_deep_exc_arg(m))))] >>

\* TupleCalls of a pipeline whose extract stage returns an error itself, and
\* calls nothing, when the message is not a dict
TupleCalls_returning_early(func, test_case) ==
    LET m == dict_get(test_case, "message", PyNone)
    IN IF ~dict_has(test_case, "message") THEN <<>>
       ELSE IF func = "run_shallow_tuple"
       THEN << [func_name |-> "parse_message_shallow_tuple", arg |-> m] >>
            \o (IF ~IsDict(m) THEN <<>>
                ELSE << [func_name |-> "parse_datetime_shallow_tuple",
                         arg |-> parse_message_shallow_tuple_arg(m)],
                        [func_name |-> "validate_format_shallow_tuple",
                         arg |-> parse_datetime_shallow_tuple_arg(
                                     parse_message_shallow_tuple_arg(m))] >>)
       ELSE << [func_name |-> "process_batch_deep_tuple", arg |-> m],
               [func_name |-> "validate_message_deep_tuple",
                arg |-> process_batch_deep_tuple_arg(m)],
               [func_name |-> "parse_message_deep_tuple",
                arg |-> validate_message_deep_tuple_arg(
                            process_batch_deep_tuple_arg(m))] >>
            \o (IF ~IsDict(m) THEN <<>>
                ELSE << [func_name |-> "parse_datetime_deep_tuple",
                         arg |-> parse_message_deep_tuple_arg(
                                     validate_message_deep_tuple_arg(
                                         process_batch_deep_tuple_arg(m)))],
                        [func_name |-> "validate_format_deep_tuple",
                         arg |-> parse_datetime_deep_tuple_arg(
                                     parse_message_deep_tuple_arg(
                                         validate_message_deep_tuple_arg(
                                             process_batch_deep_tuple_arg(m))))] >>)

\* the calls made while the Paired-Return runner func processes test_case:
\* the lookup of "message" is the first thing the loop does, and every stage
\* calls the next one before it looks at any error
TupleCalls(func, test_case) ==
    LET m == dict_get(test_case, "message", PyNone)
    IN IF ~dict_has(test_case, "message") THEN <<>>
       ELSE IF func = "run_shallow_tuple"
       THEN << [func_name |-> "parse_message_shallow_tuple", arg |-> m],
               [func_name |-> "parse_datetime_shallow_tuple",
                arg |-> parse_message_shallow_tuple_arg(m)],
               [func_name |-> "validate_format_shallow_tuple",
                arg |-> parse_datetime_shallow_tuple_arg(
                            parse_message_shallow_tuple_arg(m))] >>
       ELSE << [func_name |-> "process_batch_deep_tuple", arg |-> m],
               [func_name |-> "validate_message_deep_tuple",
                arg |-> process_batch_deep_tuple_arg(m)],
               [func_name |-> "parse_message_deep_tuple",
                arg |-> validate_message_deep_tuple_arg(
                            process_batch_deep_tuple_arg(m))],
               [func_name |-> "parse_datetime_deep_tuple",
                arg |-> parse_message_deep_tuple_arg(
                            validate_message_deep_tuple_arg(
                                process_batch_deep_tuple_arg(m)))],
               [func_name |-> "validate_format_deep_tuple",
                arg |-> parse_datetime_deep_tuple_arg(parse_message_deep_tuple_arg(
                            validate_message_deep_tuple_arg(
                                process_batch_deep_tuple_arg(m))))] >>

\* the calls made while the Tagged-Union runner func processes test_case
UnionCalls(func, test_case) ==
    LET m == dict_get(test_case, "message", PyNone)
    IN IF ~dict_has(test_case, "message") THEN <<>>
       ELSE IF func = "run_shallow_union"
       THEN << [func_name |-> "parse_message_shallow_union", arg |-> m],
               [func_name |-> "parse_datetime_shallow_union",
                arg |-> parse_message_shallow_union_arg(m)],
               [func_name |-> "validate_format_shallow_union",
                arg |-> parse_datetime_shallow_union_arg(
                            parse_message_shallow_union_arg(m))] >>
       ELSE << [func_name |-> "process_batch_deep_union", arg |-> m],
               [func_name |-> "validate_message_deep_union",
                arg |-> process_batch_deep_union_arg(m)],
               [func_name |-> "parse_message_deep_union",
                arg |-> validate_message_deep_union_arg(
                            process_batch_deep_union_arg(m))],
               [func_name |-> "parse_datetime_deep_union",
                arg |-> parse_message_deep_union_arg(
                            validate_message_deep_union_arg(
                                process_batch_deep_union_arg(m)))],
               [func_name |-> "validate_format_deep_union",
                arg |-> parse_datetime_deep_union_arg(parse_message_deep_union_arg(
                            validate_message_deep_union_arg(
                                process_batch_deep_union_arg(m))))] >>

\* the calls the enabled profiler records while the runner goes through
\* entries, the passes of its loop so far
RECURSIVE RunCalls(_)
RunCalls(entries) ==
    IF entries = <<>> THEN <<>>
    ELSE LET e == Head(entries)
             calls == CASE e.func \in {"run_shallow_exc", "run_deep_exc"} ->
                               ExcCalls(e.func, test_cases[e.index])
                        [] e.func \in {"run_shallow_tuple", "run_deep_tuple"} ->
                               TupleCalls(e.func, test_cases[e.index])
                        [] e.func \in {"run_shallow_union", "run_deep_union"} ->
                               UnionCalls(e.func, test_cases[e.index])
         IN calls \o RunCalls(Tail(entries))

\* pstats.Stats(profiler) of a run of runner func that took t ticks and made
\* the calls: an entry for the runner, one for every stage function that was
\* called, with the number of its calls, and one for the call that disabled
\* the profiler
ProfileOf(func, calls, t) ==
    LET first == {i \in 1..Len(calls) :
                     \A j \in 1..(i - 1) : calls[j].func_name # calls[i].func_name}
        called == SelectSeq([i \in 1..Len(calls) |->
                                [i |-> i, func_name |-> calls[i].func_name]],
                            LAMBDA c : c.i \in first)
    IN << [func_name |-> func, nc |-> 1, tt |-> t, ct |-> t] >>
       \o [k \in 1..Len(called) |->
              [func_name |-> called[k].func_name,
               nc |-> Cardinality({i \in 1..Len(calls) :
                                      calls[i].func_name = called[k].func_name}),
               tt |-> t, ct |-> t]]
       \o << [func_name |-> "<method 'disable' of '_lsprof.Profiler' objects>",
              nc |-> 1, tt |-> 0, ct |-> 0] >>

(***************************************************************************)
(* generate_test_cases: the test cases the generator can put in a batch    *)
(***************************************************************************)
valid_datetimes ==
    << "2024-01-15 10:30:45", "2023-12-31 23:59:59", "2024-06-15 14:22:33",
       "2024-03-10 08:15:00", "2024-09-20 17:45:12", "2024-11-05 12:00:00",
       "2024-02-29 09:30:15", "2024-07-04 16:20:55", "2024-05-01 11:11:11",
       "2024-08-18 19:45:30" >>

invalid_formats ==
    << "2024/01/15 10:30:45", "15-01-2024 10:30:45", "2024-13-01 10:30:45",
       "2024-01-32 10:30:45", "2024-01-15 25:30:45", "2024-01-15 10:70:45",
       "2024-01-15 10:30:70", "not-a-datetime", "2024-01-15", "10:30:45",
       "2024-1-5 10:30:45", "24-01-15 10:30:45", "", "2024-02-30 10:30:45",
       "abcd-ef-gh ij:kl:mn" >>

invalid_types ==
    << PyInt(123456), PyFloat("12345.67"), PyBool(TRUE), PyBool(FALSE),
       PyList(<<PyStr("2024-01-15"), PyStr("10:30:45")>>),
       PyDict(<< <<"date", PyStr("2024-01-15")>>, <<"time", PyStr("10:30:45")>> >>),
       PyNone >>

malformed_messages ==
    << PyNone, PyStr("not a dict"), PyInt(123),
       PyList(<<PyStr("list"), PyStr("of"), PyStr("items")>>), PyFloat("12.34") >>

\* f"user_{i}" and f"message content {i}"
UserOf(i) == <<"user", PyStr("user_" \o IntToStr(i))>>
DataOf(i) == <<"data", PyStr("message content " \o IntToStr(i))>>

\* the first and the last id of each of the five loops
SampledIds == {0, 199, 200, 399, 400, 599, 600, 799, 800, 999}

\* the test case the generator appends for id i when random.choice draws the
\* element at position choice of the loop's list
GeneratedCase(i, choice) ==
    IF i < 200
    THEN PyDict(<< <<"id", PyInt(i)>>,
                   <<"message", PyDict(<< <<"timestamp", PyStr(valid_datetimes[choice])>>,
                                          UserOf(i), DataOf(i) >>)>>,
                   <<"expected_valid", PyBool(TRUE)>> >>)
    ELSE IF i < 400
    THEN PyDict(<< <<"id", PyInt(i)>>,
                   <<"message", PyDict(<< UserOf(i), DataOf(i) >>)>>,
                   <<"expected_valid", PyBool(FALSE)>>,
                   <<"error_type", PyStr("missing_field")>> >>)
    ELSE IF i < 600
    THEN PyDict(<< <<"id", PyInt(i)>>,
                   <<"message", PyDict(<< <<"timestamp", PyStr(invalid_formats[choice])>>,
                                          UserOf(i), DataOf(i) >>)>>,
                   <<"expected_valid", PyBool(FALSE)>>,
                   <<"error_type", PyStr("invalid_format")>> >>)
    ELSE IF i < 800
    THEN PyDict(<< <<"id", PyInt(i)>>,
                   <<"message", PyDict(<< <<"timestamp", invalid_types[choice]>>,
                                          UserOf(i), DataOf(i) >>)>>,
                   <<"expected_valid", PyBool(FALSE)>>,
                   <<"error_type", PyStr("type_error")>> >>)
    ELSE PyDict(<< <<"id", PyInt(i)>>,
                   <<"message", malformed_messages[choice]>>,
                   <<"expected_valid", PyBool(FALSE)>>,
                   <<"error_type", PyStr("malformed_message")>> >>)

\* the positions random.choice can draw for id i
ChoicesOf(i) ==
    IF i < 200 THEN 1..Len(valid_datetimes)
    ELSE IF i < 400 THEN {1}
    ELSE IF i < 600 THEN 1..Len(invalid_formats)
    ELSE IF i < 800 THEN 1..Len(invalid_types)
    ELSE 1..Len(malformed_messages)

generate_test_cases ==
    {GeneratedCase(i, choice) : <<i, choice>> \in
        {ic \in SampledIds \X (1..Len(invalid_formats)) : ic[2] \in ChoicesOf(ic[1])}}

\* a batch of one generated test case
GeneratedInit ==
    /\ test_cases \in {<<test_case>> : test_case \in generate_test_cases}
    /\ benchmarks = Benchmarks
    /\ bench = 1
    /\ pc = "bench"
    /\ idx = 0
    /\ results = NewResults
    /\ log = <<>>
    /\ all_results = <<>>
    /\ profilers = <<>>
    /\ total_time = <<>>
    /\ stats = <<>>
    /\ output = <<>>

GeneratedSpec == GeneratedInit /\ [][Next]_vars

(***************************************************************************)
(* The report: what run_all_benchmarks prints and saves once the six runs  *)
(* are over                                                                *)
(***************************************************************************)
\* A float is carried as an exact fraction of two integers; a time is a
\* whole number of clock ticks.
Frac(n, d) == [num |-> n, den |-> d]
FromInt(n) == Frac(n, 1)
FracEq(x, y) == x.num * y.den = y.num * x.den
\* x / y for a y that is not zero, x * y
FracDiv(x, y) == Frac(x.num * y.den, x.den * y.num)
FracMul(x, y) == Frac(x.num * y.num, x.den * y.den)

\* pattern in func_name
RECURSIVE str_contains(_, _)
str_contains(s, sub) ==
    IF Len(sub) > Len(s) THEN FALSE
    ELSE StartsWith(s, sub) \/ str_contains(SubSeq(s, 2, Len(s)), sub)

\* the entry a pattern starts with
NoCalls ==
    [ncalls |-> 0, tottime |-> FromInt(0), cumtime |-> FromInt(0),
     percall_tot |-> FromInt(0), percall_cum |-> FromInt(0)]

\* the position of the first pattern that func_name contains, 0 when none
FirstPattern(func_name, func_patterns) ==
    LET found == {i \in 1..Len(func_patterns) :
                     str_contains(func_name, func_patterns[i])}
    IN IF found = {} THEN 0
       ELSE CHOOSE i \in found : \A j \in found : i <= j

\* StatsEntry with the times of all calls where the times per call belong
StatsEntry_undivided(e) ==
    [ncalls |-> e.nc, tottime |-> FromInt(e.tt), cumtime |-> FromInt(e.ct),
     percall_tot |-> FromInt(e.tt), percall_cum |-> FromInt(e.ct)]

\* the entry extract_function_stats stores for a function of the profile
StatsEntry(e) ==
    [ncalls |-> e.nc, tottime |-> FromInt(e.tt), cumtime |-> FromInt(e.ct),
     percall_tot |-> IF e.nc > 0 THEN FracDiv(FromInt(e.tt), FromInt(e.nc))
                     ELSE FromInt(0),
     percall_cum |-> IF e.nc > 0 THEN FracDiv(FromInt(e.ct), FromInt(e.nc))
                     ELSE FromInt(0)]

\* the loop over stats.stats.items(), function_times being the dict so far
RECURSIVE ScanStats(_, _, _)
ScanStats(function_times, items, func_patterns) ==
    IF items = <<>> THEN function_times
    ELSE ScanStats(
             IF FirstPattern(Head(items).func_name, func_patterns) = 0
             THEN function_times
             ELSE [function_times EXCEPT
                      ![func_patterns[FirstPattern(Head(items).func_name,
                                                   func_patterns)]] =
                          StatsEntry(Head(items))],
             Tail(items), func_patterns)

\* extract_function_stats(stats, func_patterns): a dict from each pattern to
\* its entry
extract_function_stats(ps, func_patterns) ==
    ScanStats([p \in {func_patterns[i] : i \in 1..Len(func_patterns)} |-> NoCalls],
              ps, func_patterns)

\* results[name]: the profile data stored under a benchmark's name
profile_data_of(name) ==
    LET k == CHOOSE k \in 1..Len(all_results) : all_results[k].name = name
    IN [result |-> all_results[k].result, total_time |-> total_time[k],
        stats |-> stats[k]]

\* (total_time / 1000) * 1000000
us_per_test(profile_data) ==
    FracMul(FracDiv(FromInt(profile_data.total_time), FromInt(1000)),
            FromInt(1000000))

\* the rows of the function-level breakdown: the patterns that were called
BreakdownRows(function_stats, func_patterns) ==
    SelectSeq([i \in 1..Len(func_patterns) |->
                  [func_name |-> func_patterns[i],
                   data |-> function_stats[func_patterns[i]]]],
              LAMBDA row : row.data.ncalls > 0)

\* what print_benchmark_result prints, and save_results_text writes, for one
\* benchmark
DetailOf(benchmark) ==
    [name |-> benchmark.name,
     total_time |-> profile_data_of(benchmark.name).total_time,
     success |-> profile_data_of(benchmark.name).result.success,
     failures |-> profile_data_of(benchmark.name).result.failure,
     us_per_test |-> us_per_test(profile_data_of(benchmark.name)),
     breakdown |-> BreakdownRows(
                       extract_function_stats(profile_data_of(benchmark.name).stats,
                                              benchmark.patterns),
                       benchmark.patterns)]

\* comparison_data with the shallow baseline in every row
comparison_data_one_baseline ==
    LET baseline_shallow ==
            profile_data_of("Exception Handling - Shallow Stack").total_time
    IN << <<"Exception Handling", "Shallow",
            profile_data_of("Exception Handling - Shallow Stack"), baseline_shallow>>,
          <<"Exception Handling", "Deep",
            profile_data_of("Exception Handling - Deep Stack"), baseline_shallow>>,
          <<"Union (Result | Exception)", "Shallow",
            profile_data_of("Union Error (Result | Exception) - Shallow Stack"),
            baseline_shallow>>,
          <<"Union (Result | Exception)", "Deep",
            profile_data_of("Union Error (Result | Exception) - Deep Stack"),
            baseline_shallow>>,
          <<"Tuple (Result, Error)", "Shallow",
            profile_data_of("Tuple Error (Result, Error) - Shallow Stack"),
            baseline_shallow>>,
          <<"Tuple (Result, Error)", "Deep",
            profile_data_of("Tuple Error (Result, Error) - Deep Stack"),
            baseline_shallow>> >>

\* comparison_data: (impl, stack, data, baseline) for the six rows
comparison_data ==
    LET baseline_shallow ==
            profile_data_of("Exception Handling - Shallow Stack").total_time
        baseline_deep ==
            profile_data_of("Exception Handling - Deep Stack").total_time
    IN << <<"Exception Handling", "Shallow",
            profile_data_of("Exception Handling - Shallow Stack"), baseline_shallow>>,
          <<"Exception Handling", "Deep",
            profile_data_of("Exception Handling - Deep Stack"), baseline_deep>>,
          <<"Union (Result | Exception)", "Shallow",
            profile_data_of("Union Error (Result | Exception) - Shallow Stack"),
            baseline_shallow>>,
          <<"Union (Result | Exception)", "Deep",
            profile_data_of("Union Error (Result | Exception) - Deep Stack"),
            baseline_deep>>,
          <<"Tuple (Result, Error)", "Shallow",
            profile_data_of("Tuple Error (Result, Error) - Shallow Stack"),
            baseline_shallow>>,
          <<"Tuple (Result, Error)", "Deep",
            profile_data_of("Tuple Error (Result, Error) - Deep Stack"),
            baseline_deep>> >>

\* the row the loop over comparison_data prints for (impl, stack, data, baseline)
ComparisonRow(c) ==
    [impl |-> c[1], stack |-> c[2], total_time |-> c[3].total_time,
     us_per_test |-> us_per_test(c[3]),
     speedup |-> FracDiv(FromInt(c[4]), FromInt(c[3].total_time))]

ComparisonRows == [i \in 1..Len(comparison_data) |-> ComparisonRow(comparison_data[i])]

\* a line of the key findings: a strategy's total time against the baseline
\* of its depth
Finding(impl, name, baseline_name) ==
    LET time == profile_data_of(name).total_time
        exc_time == profile_data_of(baseline_name).total_time
    IN [impl |-> impl, time |-> time,
        ratio |-> FracDiv(FromInt(time), FromInt(exc_time)),
        faster |-> time < exc_time,
        percent |-> IF time < exc_time
                    THEN FracMul(FracDiv(FromInt(exc_time - time), FromInt(exc_time)),
                                 FromInt(100))
                    ELSE FracMul(FracDiv(FromInt(time - exc_time), FromInt(exc_time)),
                                 FromInt(100))]

\* the entry of the saved JSON document for one benchmark
bench_data(benchmark) ==
    [name |-> benchmark.name,
     total_time |-> profile_data_of(benchmark.name).total_time,
     success |-> profile_data_of(benchmark.name).result.success,
     failures |-> profile_data_of(benchmark.name).result.failure,
     us_per_test |-> us_per_test(profile_data_of(benchmark.name)),
     function_stats |->
         extract_function_stats(profile_data_of(benchmark.name).stats,
                                benchmark.patterns)]

\* print_benchmark_result for the next benchmark of the list
print_benchmark_result ==
    /\ pc = "print"
    /\ bench <= Len(benchmarks)
    /\ output' = Append(output, [what |-> "detail",
                                 detail |-> DetailOf(benchmarks[bench])])
    /\ bench' = bench + 1
    /\ pc' = IF bench = Len(benchmarks) THEN "compare" ELSE "print"
    /\ UNCHANGED <<test_cases, benchmarks, idx, results, log, all_results,
                   profilers, total_time, stats>>

\* the comparison table on the console
print_comparison ==
    /\ pc = "compare"
    /\ output' = Append(output, [what |-> "comparison", rows |-> ComparisonRows])
    /\ pc' = "findings"
    /\ UNCHANGED <<test_cases, benchmarks, bench, idx, results, log, all_results,
                   profilers, total_time, stats>>

\* the key findings on the console
print_key_findings ==
    /\ pc = "findings"
    /\ output' = Append(output,
           [what |-> "findings",
            shallow |-> << Finding("Union error",
                                   "Union Error (Result | Exception) - Shallow Stack",
                                   "Exception Handling - Shallow Stack"),
                           Finding("Tuple error",
                                   "Tuple Error (Result, Error) - Shallow Stack",
                                   "Exception Handling - Shallow Stack") >>,
            deep |-> << Finding("Union error",
                                "Union Error (Result | Exception) - Deep Stack",
                                "Exception Handling - Deep Stack"),
                        Finding("Tuple error",
                                "Tuple Error (Result, Error) - Deep Stack",
                                "Exception Handling - Deep Stack") >>])
    /\ pc' = "save_json"
    /\ UNCHANGED <<test_cases, benchmarks, bench, idx, results, log, all_results,
                   profilers, total_time, stats>>

\* save_results_json(results, benchmarks, filename)
save_results_json ==
    /\ pc = "save_json"
    /\ output' = Append(output,
           [what |-> "json",
            benchmarks |-> [k \in 1..Len(benchmarks) |-> bench_data(benchmarks[k])]])
    /\ pc' = "save_text"
    /\ UNCHANGED <<test_cases, benchmarks, bench, idx, results, log, all_results,
                   profilers, total_time, stats>>

\* save_results_text(results, benchmarks, filename)
save_results_text ==
    /\ pc = "save_text"
    /\ output' = Append(output,
           [what |-> "text",
            details |-> [k \in 1..Len(benchmarks) |-> DetailOf(benchmarks[k])],
            rows |-> ComparisonRows])
    /\ pc' = "end"
    /\ UNCHANGED <<test_cases, benchmarks, bench, idx, results, log, all_results,
                   profilers, total_time, stats>>

ReportNext ==
    \/ print_benchmark_result
    \/ print_comparison
    \/ print_key_findings
    \/ save_results_json
    \/ save_results_text

\* longest time a run takes, in clock ticks
MaxTime == 2

\* most calls of a function in a profile
MaxCalls == 2

\* batches of valid test cases
ReportBatches ==
    {[i \in 1..n |-> TestCase(1, Messages[1], TRUE)] : n \in 0..MaxBatch}

\* the profile of run k over n cases that took t ticks: the runner, the
\* stages it called once per case, and the call that disabled the profiler
RunStats(k, n, t) ==
    << [func_name |-> Benchmarks[k].func, nc |-> 1, tt |-> t, ct |-> t] >>
    \o [j \in 1..(IF n = 0 THEN 0 ELSE Len(Benchmarks[k].patterns)) |->
           [func_name |-> Benchmarks[k].patterns[j], nc |-> n, tt |-> t, ct |-> t]]
    \o << [func_name |-> "<method 'disable' of '_lsprof.Profiler' objects>",
           nc |-> 1, tt |-> 0, ct |-> 0] >>

\* the state after the six runs of a batch of valid cases, for any times the
\* clock may have measured
ReportInit ==
    /\ test_cases \in ReportBatches
    /\ benchmarks = Benchmarks
    /\ bench = 1
    /\ pc = "print"
    /\ idx = Len(test_cases) + 1
    /\ results = [success |-> Len(test_cases), failure |-> 0, errors |-> <<>>]
    /\ log = <<>>
    /\ all_results = [k \in 1..Len(Benchmarks) |->
                         [name |-> Benchmarks[k].name, result |-> results]]
    /\ profilers = [k \in 1..Len(Benchmarks) |-> "disabled"]
    /\ total_time \in [1..Len(Benchmarks) -> 1..MaxTime]
    /\ stats = [k \in 1..Len(Benchmarks) |->
                   RunStats(k, Len(test_cases), total_time[k])]
    /\ output = <<>>

ReportSpec == ReportInit /\ [][ReportNext]_vars

\* what a profile may hold for one function: nothing, or an entry with its
\* number of calls, total time and cumulative time
CallChoices ==
    {<<>>, << [nc |-> 0, tt |-> 0, ct |-> 0] >>}
    \cup {<< [nc |-> n, tt |-> t, ct |-> t + 1] >> : n \in 1..MaxCalls, t \in 1..MaxTime}

\* the functions of run k that the profiles are drawn over: its first and
\* last stage and the runner
ProfiledNames(k) ==
    << Benchmarks[k].patterns[1],
       Benchmarks[k].patterns[Len(Benchmarks[k].patterns)],
       Benchmarks[k].func >>

\* the profile of run k that holds choice[j] for the j-th of these functions
StatsOf(k, choice) ==
    LET entries(j) == [i \in 1..Len(choice[j]) |->
                          [func_name |-> ProfiledNames(k)[j], nc |-> choice[j][i].nc,
                           tt |-> choice[j][i].tt, ct |-> choice[j][i].ct]]
    IN entries(1) \o entries(2) \o entries(3)

\* the state after six runs for any profile
StatsInit ==
    /\ test_cases = <<>>
    /\ benchmarks = Benchmarks
    /\ bench = 1
    /\ pc = "print"
    /\ idx = 1
    /\ results = NewResults
    /\ log = <<>>
    /\ all_results = [k \in 1..Len(Benchmarks) |->
                         [name |-> Benchmarks[k].name, result |-> NewResults]]
    /\ profilers = [k \in 1..Len(Benchmarks) |-> "disabled"]
    /\ total_time = [k \in 1..Len(Benchmarks) |-> 1]
    /\ \E choice \in [1..3 -> CallChoices] :
           stats = [k \in 1..Len(Benchmarks) |-> StatsOf(k, choice)]
    /\ output = <<>>

StatsSpec == StatsInit /\ [][ReportNext]_vars

(***************************************************************************)
(* Properties                                                              *)
(***************************************************************************)
LogEntries == {log[i] : i \in 1..Len(log)}

ShallowFuncs == {"run_shallow_exc", "run_shallow_union", "run_shallow_tuple"}
DeepFuncs == {"run_deep_exc", "run_deep_union", "run_deep_tuple"}

SameDepth(f, g) == (f \in ShallowFuncs) = (g \in ShallowFuncs)

StrategyOf(f) ==
    CASE f \in {"run_shallow_exc", "run_deep_exc"} -> "exc"
      [] f \in {"run_shallow_union", "run_deep_union"} -> "union"
      [] f \in {"run_shallow_tuple", "run_deep_tuple"} -> "tuple"

\* how a runner classified a case: success, or the kind of the failure
Kind(e) == IF e.success THEN "success" ELSE e.error.cls

\* the payload of a mapping message's "timestamp" field
TimestampOf(m) == dict_get(m, "timestamp", PyNone)

\* the calls a runner has made so far
LogOf(func) == SelectSeq(log, LAMBDA e : e.func = func)

\* C1: at each depth the three strategies classify every case alike:
\* whenever two runners of the same depth have processed the same case, both
\* report success or both report a failure of the same kind.
C1_StrategiesAgree ==
    \A a, b \in LogEntries :
        (a.index = b.index /\ SameDepth(a.func, b.func)) => Kind(a) = Kind(b)

C1_Witness ==
    \E a, b, c \in LogEntries :
        /\ a.func = "run_shallow_exc" /\ b.func = "run_shallow_union"
        /\ c.func = "run_shallow_tuple"
        /\ a.index = b.index /\ b.index = c.index
        /\ Kind(a) = "ValueError" /\ Kind(b) = "ValueError"
        /\ Kind(c) = "ValueError"

\* C2: depth does not change the classification: whenever the shallow and
\* the deep runner of one strategy have processed the same case, both report
\* success or both report a failure of the same kind.
C2_DepthAgrees ==
    \A a, b \in LogEntries :
        (a.index = b.index /\ StrategyOf(a.func) = StrategyOf(b.func))
            => Kind(a) = Kind(b)

\* C3: a mapping message whose "timestamp" payload is neither text nor null
\* fails with kind TypeError in every runner.
NonTextTimestamp(m) ==
    /\ IsDict(m)
    /\ dict_has(m, "timestamp")
    /\ TimestampOf(m).cls \notin {"str", "NoneType"}

C3_NonTextIsTypeError ==
    \A e \in LogEntries :
        NonTextTimestamp(e.message) => (~e.success /\ e.error.cls = "TypeError")

\* C4: inside a runner success + failure is the number of cases processed,
\* every result a runner returned has success + failure equal to the batch
\* size, and every pass of the loop adds exactly 1 to exactly one of the
\* two counters; no step of a run lowers either.
C4_TallyInvariant ==
    /\ pc = "loop" => results.success + results.failure = idx - 1
    /\ \A k \in 1..Len(all_results) :
           all_results[k].result.success + all_results[k].result.failure
               = Len(test_cases)

C4_TallyStep ==
    pc = "loop" =>
        \/ idx' = idx /\ results' = results
        \/ /\ idx' = idx + 1
           /\ \/ /\ results'.success = results.success + 1
                 /\ results'.failure = results.failure
              \/ /\ results'.success = results.success
                 /\ results'.failure = results.failure + 1

C4_TallyExact == []C4_TallyInvariant /\ [][C4_TallyStep]_vars

C4_Witness ==
    \E k \in 1..Len(all_results) :
        /\ all_results[k].result.success > 0
        /\ all_results[k].result.failure > 0

\* the steps the program has taken: runs returned, then the position
\* inside the current run
Progress ==
    bench * (Len(test_cases) + 3)
        + (IF pc = "loop" THEN idx + 1 ELSE 0)

\* C5: a runner calls its entry point once per case, in batch order, with
\* the case's message, whatever the outcomes; no failure stops a run (no
\* exception escapes, and every step moves the program on towards the end of
\* a batch of bounded length); and a runner that has returned has called the
\* entry point for every case.
CalledInOrder(func) ==
    LET calls == LogOf(func)
    IN /\ Len(calls) <= Len(test_cases)
       /\ \A i \in 1..Len(calls) :
              /\ calls[i].index = i
              /\ calls[i].message = dict_get(test_cases[i], "message", PyNone)

C5_CallsInvariant ==
    /\ pc # "crashed"
    /\ \A k \in 1..Len(Benchmarks) : CalledInOrder(Benchmarks[k].func)
    /\ \A k \in 1..Len(all_results) :
           Len(LogOf(Benchmarks[k].func)) = Len(test_cases)
    /\ pc = "loop" => Len(LogOf(Benchmarks[bench].func)) = idx - 1
    /\ pc = "done" <=> Len(all_results) = Len(Benchmarks)

C5_BatchCompletes ==
    []C5_CallsInvariant /\ [][Progress' > Progress]_vars

C5_Witness ==
    /\ pc = "done"
    /\ Len(test_cases) >= 2
    /\ \E e \in LogEntries : e.func = "run_deep_exc" /\ e.index = 1 /\ ~e.success
    /\ \E e \in LogEntries : e.func = "run_deep_exc" /\ e.index = 2 /\ e.success

\* the text is YYYY-MM-DD HH:MM:SS, digits and separators in their places
IsTimestampShape(s) ==
    /\ Len(s) = 19
    /\ \A i \in {1, 2, 3, 4, 6, 7, 9, 10, 12, 13, 15, 16, 18, 19} :
           IsDigit(Char(s, i))
    /\ Char(s, 5) = "-" /\ Char(s, 8) = "-" /\ Char(s, 11) = " "
    /\ Char(s, 14) = ":" /\ Char(s, 17) = ":"

FieldsOf(s) ==
    [year |-> StrToInt(SubSeq(s, 1, 4)), month |-> StrToInt(SubSeq(s, 6, 7)),
     day |-> StrToInt(SubSeq(s, 9, 10)), hour |-> StrToInt(SubSeq(s, 12, 13)),
     minute |-> StrToInt(SubSeq(s, 15, 16)),
     second |-> StrToInt(SubSeq(s, 18, 19))]

ValidTime(f) == f.hour <= 23 /\ f.minute <= 59 /\ f.second <= 59

ValidTimestampText(s) ==
    /\ IsTimestampShape(s)
    /\ LET f == FieldsOf(s)
       IN /\ f.year >= 1 /\ f.month \in 1..12
          /\ f.day \in 1..DaysInMonth(f.year, f.month)
          /\ ValidTime(f)

HasValidTimestamp(m) ==
    IsDict(m) /\ IsStr(TimestampOf(m)) /\ ValidTimestampText(TimestampOf(m).v)

\* C6: a mapping message whose "timestamp" is a valid YYYY-MM-DD HH:MM:SS
\* text succeeds in every runner, with the timestamp whose fields are the
\* numbers written in the text.
C6_ValidTimestampParses ==
    \A e \in LogEntries :
        HasValidTimestamp(e.message) =>
            LET f == FieldsOf(TimestampOf(e.message).v)
            IN /\ e.success
               /\ e.value = PyDatetime(f.year, f.month, f.day,
                                       f.hour, f.minute, f.second)

C6_Witness ==
    \E a, b \in LogEntries :
        /\ a.func = "run_deep_union" /\ a.success
        /\ HasValidTimestamp(a.message) /\ Len(a.message.v) = 1
        /\ b.func = "run_deep_union" /\ b.success
        /\ HasValidTimestamp(b.message) /\ Len(b.message.v) > 1

NoTimestamp(m) ==
    IsDict(m) /\ (~dict_has(m, "timestamp") \/ TimestampOf(m) = PyNone)

\* C7: a mapping message without a "timestamp" field, or with a null one,
\* fails in every runner with the ValueError for the empty string.
C7_MissingTimestampIsEmpty ==
    \A e \in LogEntries :
        NoTimestamp(e.message) =>
            (~e.success /\ e.error = PyValueError("Empty datetime string"))

C7_Witness ==
    \E a, b \in LogEntries :
        /\ a.func = "run_shallow_tuple" /\ b.func = "run_shallow_tuple"
        /\ IsDict(a.message) /\ ~dict_has(a.message, "timestamp")
        /\ IsDict(b.message) /\ dict_has(b.message, "timestamp")
        /\ TimestampOf(b.message) = PyNone
        /\ ~a.success /\ ~b.success

\* the empty mapping a deep runner's second stage passes on for e's message
EmptiedByDeepStage(e) ==
    CASE e.func = "run_deep_exc" ->
             validate_message_deep_exc_arg(process_batch_deep_exc_arg(e.message))
      [] e.func = "run_deep_union" ->
             validate_message_deep_union_arg(process_batch_deep_union_arg(e.message))
      [] e.func = "run_deep_tuple" ->
             validate_message_deep_tuple_arg(process_batch_deep_tuple_arg(e.message))

\* C8: a message that is not a mapping (null, text, number, list) fails in
\* every runner with the ValueError for the empty string, never a
\* TypeError; the deep runners pass on an empty mapping in its place.
C8_NonMappingIsEmpty ==
    \A e \in LogEntries :
        ~IsDict(e.message) =>
            /\ ~e.success
            /\ e.error = PyValueError("Empty datetime string")
            /\ e.func \in DeepFuncs => EmptiedByDeepStage(e) = PyDict(<<>>)

C8_Witness ==
    \E a, b \in LogEntries :
        /\ a.func = "run_shallow_exc" /\ a.message = PyNone /\ ~a.success
        /\ b.func = "run_deep_exc" /\ b.message.cls = "str" /\ ~b.success

ImpossibleDate(m) ==
    /\ IsDict(m) /\ IsStr(TimestampOf(m))
    /\ IsTimestampShape(TimestampOf(m).v)
    /\ LET f == FieldsOf(TimestampOf(m).v)
       IN /\ f.year >= 1 /\ f.month \in 1..12 /\ ValidTime(f)
          /\ f.day \in 1..31
          /\ f.day > DaysInMonth(f.year, f.month)

\* C9: a mapping message whose "timestamp" text has the right shape but a
\* day beyond the length of its month fails in every runner with kind
\* ValueError.
C9_ImpossibleDateIsValueError ==
    \A e \in LogEntries :
        ImpossibleDate(e.message) => (~e.success /\ e.error.cls = "ValueError")

C9_Witness ==
    \E a, b \in LogEntries :
        /\ ImpossibleDate(a.message) /\ a.func = "run_deep_tuple" /\ ~a.success
        /\ ImpossibleDate(b.message) /\ b.func = "run_shallow_union" /\ ~b.success

\* the failure the validate stage of func's pipeline originates for the
\* message, PyNone when it originates none: the validate stage applied to
\* what the stages above it pass down
Originated(func, m) ==
    CASE func = "run_shallow_exc" ->
             LET r == validate_format_shallow_exc(parse_datetime_shallow_exc_arg(
                          parse_message_shallow_exc_arg(m)))
             IN IF r.raised THEN r.exc ELSE PyNone
      [] func = "run_deep_exc" ->
             LET r == validate_format_deep_exc(parse_datetime_deep_exc_arg(
                          parse_message_deep_exc_arg(validate_message_deep_exc_arg(
                              process_batch_deep_exc_arg(m)))))
             IN IF r.raised THEN r.exc ELSE PyNone
      [] func = "run_shallow_tuple" ->
             validate_format_shallow_tuple(parse_datetime_shallow_tuple_arg(
                 parse_message_shallow_tuple_arg(m)))[2]
      [] func = "run_deep_tuple" ->
             validate_format_deep_tuple(parse_datetime_deep_tuple_arg(
                 parse_message_deep_tuple_arg(validate_message_deep_tuple_arg(
                     process_batch_deep_tuple_arg(m)))))[2]
      [] func = "run_shallow_union" ->
             LET r == validate_format_shallow_union(parse_datetime_shallow_union_arg(
                          parse_message_shallow_union_arg(m)))
             IN IF IsException(r) THEN r ELSE PyNone
      [] func = "run_deep_union" ->
             LET r == validate_format_deep_union(parse_datetime_deep_union_arg(
                          parse_message_deep_union_arg(validate_message_deep_union_arg(
                              process_batch_deep_union_arg(m)))))
             IN IF IsException(r) THEN r ELSE PyNone

\* C10: the failure a runner observes for a case is the failure the
\* validate stage originated for it, kind and text, and the runner observes
\* none when the validate stage originated none.  The log only grows, so
\* holding for the latest entry in every state is holding for every entry.
C10_OnlyValidateOriginates ==
    log # <<>> =>
        LET e == log[Len(log)]
        IN e.error = Originated(e.func, e.message)

C10_Witness ==
    /\ log # <<>>
    /\ LET e == log[Len(log)]
       IN /\ e.func = "run_deep_tuple"
          /\ ~e.success
          /\ e.error.cls = "ValueError"
          /\ e.error.args # "Empty datetime string"

\* the kinds the runner recorded for the cases from..to of the log
KindsOf(from, to) == [i \in 1..(to - from + 1) |-> Kind(log[from + i - 1])]

\* C11: a run starts from an empty tally, and when the same batch has gone
\* through the same entry point twice, the second run returned the same
\* success count, failure count and error list as the first and classified
\* the cases in the same sequence of kinds
C11_RerunIdentical ==
    /\ (pc = "loop" /\ idx = 1) => results = NewResults
    /\ Len(all_results) = 2 =>
          /\ all_results[2].result = all_results[1].result
          /\ Len(log) = 2 * Len(test_cases)
          /\ KindsOf(Len(test_cases) + 1, Len(log)) = KindsOf(1, Len(test_cases))

\* both runs are over, and the batch had a success and a failure
C11_Witness ==
    /\ Len(all_results) = 2
    /\ all_results[1].name = all_results[2].name
    /\ all_results[2].result.success > 0
    /\ all_results[2].result.failure > 0

\* what the two outer stages of the deep variant pass down for message m
DeepPassedDown(func, m) ==
    CASE func = "run_deep_exc" ->
           <<process_batch_deep_exc_arg(m), validate_message_deep_exc_arg(m)>>
      [] func = "run_deep_tuple" ->
           <<process_batch_deep_tuple_arg(m), validate_message_deep_tuple_arg(m)>>
      [] func = "run_deep_union" ->
           <<process_batch_deep_union_arg(m), validate_message_deep_union_arg(m)>>

\* C12: no step of any run changes the batch: the list of test cases stays
\* what was loaded, every message a runner has passed to an entry point is
\* the message of the loaded test case, and a mapping message goes through
\* the two outer stages of the deep variant as it was loaded.
C12_Loaded ==
    /\ test_cases \in Batches
    /\ \A e \in LogEntries :
           /\ e.index <= Len(test_cases)
           /\ e.message = dict_get(test_cases[e.index], "message", PyNone)
           /\ (e.func \in DeepFuncs /\ IsDict(e.message)) =>
                  DeepPassedDown(e.func, e.message) = <<e.message, e.message>>

C12_BatchUnmodified == []C12_Loaded /\ [][test_cases' = test_cases]_vars

\* all six runs are over, and a deep run was given a mapping of several fields
C12_Witness ==
    /\ pc = "done"
    /\ Len(all_results) = Len(Benchmarks)
    /\ \E e \in LogEntries :
           e.func \in DeepFuncs /\ IsDict(e.message) /\ Len(e.message.v) > 1

\* the state in which the report starts is the state in which the six runs
\* of a batch of valid cases end
RunsEndWhereReportStarts ==
    (pc = "done" /\ test_cases \in ReportBatches) =>
        /\ idx = Len(test_cases) + 1
        /\ results = [success |-> Len(test_cases), failure |-> 0, errors |-> <<>>]
        /\ all_results = [k \in 1..Len(Benchmarks) |->
                             [name |-> Benchmarks[k].name, result |-> results]]
        /\ profilers = [k \in 1..Len(Benchmarks) |-> "disabled"]

\* every microseconds-per-test the report has put out so far, each with the
\* total time it belongs to: <<total_time, us_per_test>>
ReportedPerTest ==
    LET Of(o) ==
            CASE o.what = "detail" ->
                   {<<o.detail.total_time, o.detail.us_per_test>>}
              [] o.what = "comparison" ->
                   {<<o.rows[i].total_time, o.rows[i].us_per_test>> :
                       i \in 1..Len(o.rows)}
              [] o.what = "json" ->
                   {<<o.benchmarks[i].total_time, o.benchmarks[i].us_per_test>> :
                       i \in 1..Len(o.benchmarks)}
              [] o.what = "text" ->
                   {<<o.details[i].total_time, o.details[i].us_per_test>> :
                       i \in 1..Len(o.details)}
                   \cup {<<o.rows[i].total_time, o.rows[i].us_per_test>> :
                            i \in 1..Len(o.rows)}
              [] OTHER -> {}
    IN UNION {Of(output[i]) : i \in 1..Len(output)}

\* C13: for a batch of N >= 1 test cases, every microseconds-per-test in the
\* console tables, the JSON record and the text report is
\* total_time / N * 1e6.
C13_PerTestOverBatchSize ==
    Len(test_cases) >= 1 =>
        \A r \in ReportedPerTest :
            FracEq(r[2], Frac(r[1] * 1000000, Len(test_cases)))

\* the comparison tables the report has put out so far
ComparisonTables ==
    {output[i].rows : i \in {j \in 1..Len(output) :
                                output[j].what \in {"comparison", "text"}}}

\* the total time of the Raising run of a depth
RaisingTime(stack) ==
    LET func == IF stack = "Shallow" THEN "run_shallow_exc" ELSE "run_deep_exc"
        k == CHOOSE k \in 1..Len(Benchmarks) : Benchmarks[k].func = func
    IN total_time[k]

\* C14: a comparison table has one row per run, in the order of the runs,
\* alternating Shallow and Deep; the speedup of a row is the total time of the
\* Raising run of the row's depth divided by the row's total time, and it is
\* exactly 1 in the two Raising rows.
C14_SpeedupOverRaising ==
    \A rows \in ComparisonTables :
        /\ Len(rows) = Len(Benchmarks)
        /\ \A i \in 1..Len(rows) :
              /\ rows[i].stack = (IF i % 2 = 1 THEN "Shallow" ELSE "Deep")
              /\ rows[i].total_time = total_time[i]
              /\ FracEq(rows[i].speedup,
                        Frac(RaisingTime(rows[i].stack), total_time[i]))
              /\ rows[i].impl = "Exception Handling" =>
                     rows[i].speedup.num = rows[i].speedup.den

\* both tables are out, the two Raising runs took different times and another
\* strategy took a different time than the Raising run of its depth
C14_Witness ==
    /\ pc = "end"
    /\ Cardinality(ComparisonTables) = 1
    /\ \E i \in {j \in 1..Len(output) : output[j].what = "text"} :
           /\ output[i].rows[1].total_time # output[i].rows[2].total_time
           /\ output[i].rows[4].speedup.num # output[i].rows[4].speedup.den
           /\ output[i].rows[5].speedup.num # output[i].rows[5].speedup.den

\* the expected_valid label of the test case of a log entry
ExpectedValid(e) ==
    dict_get(test_cases[e.index], "expected_valid", PyNone) = PyBool(TRUE)

\* C15: every runner tallies a generated test case as a success exactly when
\* the generator has labelled it expected_valid.
C15_LabelsMatchOutcomes ==
    \A e \in LogEntries : e.success <=> ExpectedValid(e)

\* the entries of a profile for the function named p that count a call
CalledEntries(ps, p) ==
    {j \in 1..Len(ps) : ps[j].func_name = p /\ ps[j].nc > 0}

IsZero(x) == x.num = 0

\* C16: the function stats saved for a run hold an entry for each of the
\* run's stage names and for nothing else; the entry of a stage the profile
\* counts n > 0 calls for holds n, its two times and their quotients by n;
\* the entry of a stage that is absent from the profile, or present with no
\* call, is zero in every field.
C16_StatsPerPattern ==
    \A i \in {j \in 1..Len(output) : output[j].what = "json"} :
        \A k \in 1..Len(Benchmarks) :
            LET fs == output[i].benchmarks[k].function_stats
                patterns == Benchmarks[k].patterns
            IN /\ DOMAIN fs = {patterns[j] : j \in 1..Len(patterns)}
               /\ \A p \in DOMAIN fs :
                     IF CalledEntries(stats[k], p) = {}
                     THEN /\ fs[p].ncalls = 0
                          /\ IsZero(fs[p].tottime) /\ IsZero(fs[p].cumtime)
                          /\ IsZero(fs[p].percall_tot) /\ IsZero(fs[p].percall_cum)
                     ELSE \E j \in CalledEntries(stats[k], p) :
                          /\ fs[p].ncalls = stats[k][j].nc
                          /\ FracEq(fs[p].tottime, FromInt(stats[k][j].tt))
                          /\ FracEq(fs[p].cumtime, FromInt(stats[k][j].ct))
                          /\ FracEq(fs[p].percall_tot,
                                    Frac(stats[k][j].tt, stats[k][j].nc))
                          /\ FracEq(fs[p].percall_cum,
                                    Frac(stats[k][j].ct, stats[k][j].nc))

\* the report is out for a profile in which one stage was called several
\* times, one is present with no call, and the others are absent
C16_Witness ==
    /\ pc = "end"
    /\ \E i \in 1..Len(output) : output[i].what = "json"
    /\ \E a, b \in 1..Len(stats[2]) :
           /\ stats[2][a].func_name = "validate_format_deep_exc"
           /\ stats[2][a].nc > 1
           /\ stats[2][b].func_name = "process_batch_deep_exc"
           /\ stats[2][b].nc = 0

\* what each stage of the Paired-Return pipeline returns when the runner
\* passes message m, from the validate stage outwards
TupleReturns(func, m) ==
    IF func = "run_shallow_tuple"
    THEN << validate_format_shallow_tuple(
                parse_datetime_shallow_tuple_arg(parse_message_shallow_tuple_arg(m))),
            parse_datetime_shallow_tuple(parse_message_shallow_tuple_arg(m)),
            parse_message_shallow_tuple(m) >>
    ELSE << validate_format_deep_tuple(
                parse_datetime_deep_tuple_arg(parse_message_deep_tuple_arg(
                    validate_message_deep_tuple_arg(process_batch_deep_tuple_arg(m))))),
            parse_datetime_deep_tuple(parse_message_deep_tuple_arg(
                validate_message_deep_tuple_arg(process_batch_deep_tuple_arg(m)))),
            parse_message_deep_tuple(
                validate_message_deep_tuple_arg(process_batch_deep_tuple_arg(m))),
            validate_message_deep_tuple(process_batch_deep_tuple_arg(m)),
            process_batch_deep_tuple(m) >>

\* exactly one of the two slots of a returned pair is populated
OneSlot(r) == Len(r) = 2 /\ ((r[1] = PyNone) # (r[2] = PyNone))

\* C17: for the case a Paired-Return runner has just processed, every stage
\* returned a pair with exactly one slot populated, and every stage that got
\* a populated error slot from the stage it calls returned that same error
\* with an empty value slot.
C17_OneSlotPopulated ==
    (Len(log) > 0 /\ StrategyOf(log[Len(log)].func) = "tuple") =>
        LET returns == TupleReturns(log[Len(log)].func, log[Len(log)].message)
        IN /\ \A i \in 1..Len(returns) : OneSlot(returns[i])
           /\ \A i \in 2..Len(returns) :
                  returns[i - 1][2] # PyNone =>
                      returns[i] = <<PyNone, returns[i - 1][2]>>

\* the deep Paired-Return runner has just tallied a failure, and the shallow
\* one has tallied a success
C17_Witness ==
    /\ Len(log) > 0
    /\ log[Len(log)].func = "run_deep_tuple"
    /\ ~log[Len(log)].success
    /\ \E e \in LogEntries : e.func = "run_shallow_tuple" /\ e.success

\* the tally res lists the failures among calls, the calls a runner has made
\* so far, which it made for the cases in batch order
Listed(res, calls) ==
    LET failed == SelectSeq(calls, LAMBDA e : ~e.success)
    IN /\ \A i \in 1..Len(calls) : calls[i].index = i
       /\ Len(res.errors) = res.failure
       /\ Len(failed) = res.failure
       /\ \A i \in 1..Len(failed) : res.errors[i] = failed[i].error.cls

\* C18: in the run that is under way (or that an escaped exception has
\* ended) and in every result a runner has returned, the list of recorded
\* kinds is as long as the failure count, and its i-th entry is the kind of
\* the i-th failing case in batch order; a success records nothing.
C18_ErrorsListed ==
    /\ pc \in {"loop", "crashed"} =>
           Listed(results, LogOf(benchmarks[bench].func))
    /\ \A k \in 1..Len(all_results) :
           Listed(all_results[k].result, LogOf(benchmarks[k].func))

\* both Raising runners have returned two failures of different kinds
C18_Witness ==
    /\ Len(all_results) = 2
    /\ \A k \in 1..Len(all_results) :
           /\ all_results[k].result.failure = 2
           /\ all_results[k].result.errors[1] # all_results[k].result.errors[2]

\* how the call of each stage of the Raising pipeline ends when the runner
\* passes message m, from the validate stage outwards
ExcReturns(func, m) ==
    IF func = "run_shallow_exc"
    THEN << validate_format_shallow_exc(
                parse_datetime_shallow_exc_arg(parse_message_shallow_exc_arg(m))),
            parse_datetime_shallow_exc(parse_message_shallow_exc_arg(m)),
            parse_message_shallow_exc(m) >>
    ELSE << validate_format_deep_exc(
                parse_datetime_deep_exc_arg(parse_message_deep_exc_arg(
                    validate_message_deep_exc_arg(process_batch_deep_exc_arg(m))))),
            parse_datetime_deep_exc(parse_message_deep_exc_arg(
                validate_message_deep_exc_arg(process_batch_deep_exc_arg(m)))),
            parse_message_deep_exc(
                validate_message_deep_exc_arg(process_batch_deep_exc_arg(m))),
            validate_message_deep_exc(process_batch_deep_exc_arg(m)),
            process_batch_deep_exc(m) >>

\* C19: when the validate stage has raised for the case a Raising runner has
\* just processed, the call of each of the 2 (shallow) or 4 (deep) stages
\* above it ended by that same exception, the runner has tallied the case
\* once, as a failure of that exception, and goes on with the next case.
C19_UnwindsToRunner ==
    (Len(log) > 0 /\ StrategyOf(log[Len(log)].func) = "exc") =>
        LET last == log[Len(log)]
            returns == ExcReturns(last.func, last.message)
        IN /\ Len(returns) - 1 = (IF last.func \in ShallowFuncs THEN 2 ELSE 4)
           /\ returns[1].raised =>
                 /\ \A i \in 2..Len(returns) : returns[i] = returns[1]
                 /\ ~last.success
                 /\ last.error = returns[1].exc
                 /\ Cardinality({i \in 1..Len(log) :
                        log[i].func = last.func /\ log[i].index = last.index}) = 1
                 /\ pc # "crashed"
                 /\ (pc = "loop" /\ benchmarks[bench].func = last.func) =>
                        /\ idx = last.index + 1
                        /\ results.failure > 0
                        /\ results.errors[Len(results.errors)] = returns[1].exc.cls

\* the deep Raising runner has just tallied what the validate stage raised
\* for the first of two cases
C19_Witness ==
    /\ Len(log) > 0
    /\ log[Len(log)].func = "run_deep_exc"
    /\ ~log[Len(log)].success
    /\ pc = "loop"
    /\ idx = 2
    /\ idx <= Len(test_cases)

\* the position of a runner in the list of benchmarks
PositionOf(func) == CHOOSE k \in 1..Len(Benchmarks) : Benchmarks[k].func = func

EnabledProfilers == {i \in 1..Len(profilers) : profilers[i] = "enabled"}

\* C20: the runs take place one after another in the order of the list of
\* benchmarks: the results stored so far are those of the first runs of the
\* list, and no runner has called an entry point before a runner listed
\* before it has made its last call.  Each run has a profiler of its own,
\* which is the only one enabled for as long as the runner is running and is
\* disabled when the runner has returned; a run starts from an empty tally;
\* and no profiler is enabled when the six runs are over.
C20_RunsInTurn ==
    /\ Len(all_results) = bench - 1
    /\ \A k \in 1..Len(all_results) : all_results[k].name = Benchmarks[k].name
    /\ \A i, j \in 1..Len(log) :
           i < j => PositionOf(log[i].func) <= PositionOf(log[j].func)
    /\ \A e \in LogEntries :
           PositionOf(e.func) <= bench /\ (PositionOf(e.func) = bench => pc = "loop")
    /\ Cardinality(EnabledProfilers) <= 1
    /\ Len(profilers) = (IF pc = "loop" THEN bench ELSE bench - 1)
    /\ EnabledProfilers = (IF pc = "loop" THEN {bench} ELSE {})
    /\ (pc = "loop" /\ idx = 1) => results = NewResults /\ LogOf(benchmarks[bench].func) = <<>>
    /\ pc = "done" => Len(profilers) = Len(Benchmarks) /\ EnabledProfilers = {}

\* the six runs of a batch of two cases are over
C20_Witness ==
    /\ pc = "done"
    /\ Len(profilers) = Len(Benchmarks)
    /\ Len(all_results) = Len(Benchmarks)
    /\ Len(test_cases) > 1
    /\ Len(log) = Len(Benchmarks) * Len(test_cases)

\* every record of the batch has a "message" field
WellFormed == \A i \in 1..Len(test_cases) : dict_has(test_cases[i], "message")

\* the stage names of a pattern list, which starts with the innermost
\* stage, from the outermost stage inwards
OuterToInner(patterns) ==
    [i \in 1..Len(patterns) |-> patterns[Len(patterns) + 1 - i]]

\* the names of the functions called, in the order of the calls
NamesOf(calls) == [i \in 1..Len(calls) |-> calls[i].func_name]

\* the call counts the report shows for the stage names of a pattern list,
\* in the order of the list, when the profile of the run is ps
ReportedCalls(ps, patterns) ==
    LET function_stats == extract_function_stats(ps, patterns)
    IN [i \in 1..Len(patterns) |-> function_stats[patterns[i]].ncalls]

\* C21: over a batch of well-formed cases, the pattern list of a run names
\* 3 (shallow) or 5 (deep) stages; for the case a runner has just processed,
\* success or failure, each of these stages was called exactly once, from
\* the outermost inwards; and when the run has returned, whatever time it
\* took, the call count reported for every stage name of its pattern list
\* is the batch size, which is also the count in the profile the report
\* phase starts from.
C21_StagesCalledPerCase ==
    WellFormed =>
        /\ \A k \in 1..Len(benchmarks) :
               Len(benchmarks[k].patterns)
                   = (IF benchmarks[k].func \in ShallowFuncs THEN 3 ELSE 5)
        /\ log # <<>> =>
               NamesOf(RunCalls(<<log[Len(log)]>>))
                   = OuterToInner(Benchmarks[PositionOf(log[Len(log)].func)].patterns)
        /\ \A k \in 1..Len(all_results) :
               LET func == benchmarks[k].func
                   patterns == benchmarks[k].patterns
                   calls == RunCalls(LogOf(func))
                   batch_size == [i \in 1..Len(patterns) |-> Len(test_cases)]
               IN \A t \in 1..MaxTime :
                      /\ ReportedCalls(ProfileOf(func, calls, t), patterns)
                             = batch_size
                      /\ ReportedCalls(RunStats(PositionOf(func),
                                                Len(test_cases), t), patterns)
                             = batch_size

\* the deep Paired-Return run of a batch of two cases has returned one
\* success and one failure, the failure for a message that is not a dict
C21_Witness ==
    /\ WellFormed
    /\ Len(all_results) = 1
    /\ benchmarks[1].func = "run_deep_tuple"
    /\ Len(test_cases) = 2
    /\ all_results[1].result.success = 1
    /\ all_results[1].result.failure = 1
    /\ \E e \in LogEntries : ~e.success /\ ~IsDict(e.message)

\* the calls of the validate stage among calls
ValidateCalls(calls) ==
    SelectSeq(calls, LAMBDA c : StartsWith(c.func_name, "validate_format_"))

Lacking(i) == i \in 1..Len(test_cases) /\ ~dict_has(test_cases[i], "message")

\* the runner that is running, or that an escaped exception has ended
Runner == benchmarks[bench].func

C23_Tallied ==
    /\ \A e \in LogEntries :
           Lacking(e.index) =>
               /\ StrategyOf(e.func) = "exc"
               /\ ~e.success
               /\ e.error.cls = "KeyError"
    /\ (pc \in {"loop", "crashed"} /\ StrategyOf(Runner) = "exc") =>
           /\ pc = "loop"
           /\ Len(LogOf(Runner)) = idx - 1
    /\ \A k \in 1..Len(all_results) :
           StrategyOf(benchmarks[k].func) = "exc" =>
               /\ Len(LogOf(benchmarks[k].func)) = Len(test_cases)
               /\ all_results[k].result.failure
                      >= Cardinality({i \in 1..Len(test_cases) : Lacking(i)})
               /\ \A i \in 1..Len(test_cases) :
                      Lacking(i) =>
                          all_results[k].result.errors[
                              Cardinality({j \in 1..i :
                                  ~LogOf(benchmarks[k].func)[j].success})]
                                  = "KeyError"

C23_Escaped ==
    /\ (pc = "loop" /\ StrategyOf(Runner) # "exc") =>
           \A i \in 1..(idx - 1) : ~Lacking(i)
    /\ \A k \in 1..Len(all_results) :
           StrategyOf(benchmarks[k].func) # "exc" => WellFormed
    /\ pc = "crashed" =>
           /\ StrategyOf(Runner) # "exc"
           /\ Lacking(idx)
           /\ Len(LogOf(Runner)) = idx - 1
           /\ Len(all_results) = bench - 1
           /\ results.success + results.failure = idx - 1

C23_Step ==
    /\ pc # "crashed"
    /\ (pc = "loop" /\ Lacking(idx)) =>
           IF StrategyOf(Runner) = "exc"
           THEN /\ pc' = "loop"
                /\ idx' = idx + 1
                /\ results'.failure = results.failure + 1
                /\ results'.errors = Append(results.errors, "KeyError")
           ELSE /\ pc' = "crashed"
                /\ results' = results
                /\ all_results' = all_results

\* C23: for a record that lacks the "message" field, a Raising runner
\* tallies the case as a failure of kind KeyError, stays running and goes on
\* to the remaining cases, so that the result it returns counts every case;
\* a Paired-Return or Tagged-Union runner that comes to such a record lets
\* the lookup error escape: its next step ends the program, the batch is
\* not completed, no result is stored for the run, and nothing happens
\* after that.
C23_MissingMessage == [](C23_Tallied /\ C23_Escaped) /\ [][C23_Step]_vars

\* the lookup error has escaped the shallow Paired-Return runner at the
\* second record of a batch, after it had tallied the first
C23_Witness ==
    /\ pc = "crashed"
    /\ Runner = "run_shallow_tuple"
    /\ idx = 2
    /\ Lacking(2)
    /\ results.success = 1
    /\ all_results = <<>>

====
